---- MODULE Spec2Model ----
(***************************************************************************)
(* A model of slow_lox, a tree-walking Lox interpreter written in Rust:    *)
(* the scanner (src/src/scanner.rs), the parser (src/src/parser.rs), the   *)
(* resolver (src/src/resolver.rs), the evaluator (src/src/interpreter.rs), *)
(* its environment chain (src/src/interpreter/environment.rs) and its      *)
(* values (src/src/primitive.rs).                                          *)
(*                                                                         *)
(* Rust functions are operators that carry the same name, prefixed by the  *)
(* type they are methods of.  A function that takes &mut self returns the  *)
(* changed state next to its result.  Rc<RefCell<Environment>> is an index *)
(* into a heap of environment cells; an Environment that the code clones   *)
(* is a record, detached from the heap.  A panic (unwrap on None, todo!,   *)
(* an index out of range) is the result kind "panic".                      *)
(***************************************************************************)
EXTENDS Integers, Sequences, FiniteSets, TLC

(***************************************************************************)
(* Bounds of the model.                                                    *)
(***************************************************************************)
\* deepest nesting of blocks in the generated programs
MaxNest == 3
\* most iterations one execution of a while statement may take
MaxIter == 3
\* longest source text given to the scanner, in chars
MaxSrcLen == 4
\* largest number literal of the generated programs
MaxNum == 5

(***************************************************************************)
(* Option<T>: None is the empty sequence, Some(x) the sequence <<x>>.      *)
(***************************************************************************)
None == << >>
Some(x) == << x >>
is_some(o) == Len(o) = 1
is_none(o) == Len(o) = 0
unwrap(o) == o[1]

\* HashMap::new()
HashMap_new == [x \in {} |-> x]
\* HashMap::insert: the new value replaces the one stored under the key
HashMap_insert(map, key, value) == (key :> value) @@ map
\* HashMap::contains_key
HashMap_contains_key(map, key) == key \in DOMAIN map

(***************************************************************************)
(* Tokens and the syntax tree.                                             *)
(***************************************************************************)
Token_new(token_type, lexeme, line) ==
    [token_type |-> token_type, lexeme |-> lexeme, line |-> line]

Expr_Literal(value) == [k |-> "Literal", value |-> value]
Expr_Variable(name) == [k |-> "Variable", name |-> name]
Expr_Grouping(expression) == [k |-> "Grouping", expression |-> expression]
Expr_Unary(operator, right) ==
    [k |-> "Unary", operator |-> operator, right |-> right]
Expr_Binary(left, operator, right) ==
    [k |-> "Binary", left |-> left, operator |-> operator, right |-> right]
Expr_Logical(left, operator, right) ==
    [k |-> "Logical", left |-> left, operator |-> operator, right |-> right]
Expr_Ternary(condition, then_branch, else_branch) ==
    [k |-> "Ternary", condition |-> condition, then_branch |-> then_branch,
     else_branch |-> else_branch]
Expr_Assign(name, value) == [k |-> "Assign", name |-> name, value |-> value]
Expr_Call(callee, paren, arguments) ==
    [k |-> "Call", callee |-> callee, paren |-> paren, arguments |-> arguments]
Expr_Get(expr, name) == [k |-> "Get", expr |-> expr, name |-> name]
Expr_Set(expr, name, value) ==
    [k |-> "Set", expr |-> expr, name |-> name, value |-> value]

Stmt_Expr(expr) == [k |-> "Expr", expr |-> expr]
Stmt_Print(expr) == [k |-> "Print", expr |-> expr]
Stmt_Var(name, initializer) ==
    [k |-> "Var", name |-> name, initializer |-> initializer]
Stmt_Assign(name, expr) == [k |-> "Assign", name |-> name, expr |-> expr]
Stmt_Block(stmts) == [k |-> "Block", stmts |-> stmts]
Stmt_If(condition, then_branch, else_branch) ==
    [k |-> "If", condition |-> condition, then_branch |-> then_branch,
     else_branch |-> else_branch]
Stmt_While(condition, body) ==
    [k |-> "While", condition |-> condition, body |-> body]
Stmt_Break == [k |-> "Break"]
Stmt_Function(name, params, body) ==
    [k |-> "Function", name |-> name, params |-> params, body |-> body]
Stmt_Class(name, methods) == [k |-> "Class", name |-> name, methods |-> methods]
Stmt_Return(keyword, value) ==
    [k |-> "Return", keyword |-> keyword, value |-> value]

(***************************************************************************)
(* Values.                                                                 *)
(***************************************************************************)
Primitive_Number(n) == [t |-> "Number", v |-> n]
Primitive_Boolean(b) == [t |-> "Boolean", v |-> b]
Primitive_Nil == [t |-> "Nil"]
Primitive_String(s) == [t |-> "String", v |-> s]
Primitive_Callable(callable) == [t |-> "Callable", callable |-> callable]
Primitive_Class(class) == [t |-> "Class", class |-> class]
Primitive_Instance(instance) == [t |-> "Instance", instance |-> instance]

Value(primitive, token) == [primitive |-> primitive, token |-> token]

\* The derived PartialEq of Primitive, used against Boolean(true) only.
Primitive_is_true(p) == p.t = "Boolean" /\ p.v = TRUE

InterpretError_new(message, token) ==
    [message |-> message, token |-> token, value |-> None]
InterpretError_with_value(message, token, value) ==
    [message |-> message, token |-> token, value |-> Some(value)]

\* Results: Ok(()), Ok(value), Err(error), and a panic of the process.
Ok == [kind |-> "ok"]
OkValue(value) == [kind |-> "ok", value |-> value]
Err(err) == [kind |-> "err", err |-> err]
Panic(why) == [kind |-> "panic", why |-> why]
\* An execution that the model cuts off at MaxIter.
CutOff == [kind |-> "cutoff"]

Class_new(name, methods) == [name |-> name, methods |-> methods]
Instance_new(class) == [class |-> class, fields |-> HashMap_new]
Callable_new(name, params, body, closure) ==
    [arity |-> Len(params), name |-> name, params |-> params, body |-> body,
     closure |-> closure]

\* Instance::get
Instance_get(instance, name) ==
    IF HashMap_contains_key(instance.fields, name.lexeme)
    THEN OkValue(instance.fields[name.lexeme])
    ELSE Err(InterpretError_new(
             "Undefined property '" \o name.lexeme \o "'.", name))

\* Instance::set, on the Instance it is given (a value, not a reference)
Instance_set(instance, name, value) ==
    [instance EXCEPT !.fields = HashMap_insert(@, name.lexeme, value)]

(***************************************************************************)
(* Environments.  heap[id] is the cell of Rc<RefCell<Environment>> id; the *)
(* global environment is cell 1.  An Environment record holds `enclosing`, *)
(* an Option of a cell id, and `values`.                                   *)
(***************************************************************************)
Environment_global == [enclosing |-> None, values |-> HashMap_new]
Environment_new(enclosing) ==
    [enclosing |-> Some(enclosing), values |-> HashMap_new]

RECURSIVE ancestor_loop(_, _, _)
\* the for loop of Environment::ancestor, `n` iterations left
ancestor_loop(environment, n, heap) ==
    IF n = 0 THEN [kind |-> "ok", env |-> environment]
    ELSE IF is_none(environment.enclosing) THEN Panic("unwrap on None")
    ELSE ancestor_loop(heap[unwrap(environment.enclosing)], n - 1, heap)

\* Environment::ancestor: a clone of the cell distance + 1 links up
Environment_ancestor(self, distance, heap) ==
    IF is_none(self.enclosing) THEN Panic("unwrap on None")
    ELSE ancestor_loop(heap[unwrap(self.enclosing)], distance, heap)

RECURSIVE Environment_get(_, _, _, _)
\* Environment::get
Environment_get(self, distance, name, heap) ==
    IF HashMap_contains_key(self.values, name)
    THEN [kind |-> "ok", value |-> Some(self.values[name])]
    ELSE LET with_a(a) ==
             IF a.kind = "panic" THEN a
             ELSE Environment_get(a.env, distance, name, heap)
         IN  with_a(Environment_ancestor(self, distance, heap))

RECURSIVE Environment_root(_, _)
\* the while loop of get_global and assign_global: clones up to the root
Environment_root(environment, heap) ==
    IF is_some(environment.enclosing)
    THEN Environment_root(heap[unwrap(environment.enclosing)], heap)
    ELSE environment

\* Environment::get_global
Environment_get_global(self, name, heap) ==
    Environment_get(Environment_root(self, heap), 0, name, heap)

\* Environment::define
Environment_define(self, name, value) ==
    [self EXCEPT !.values = HashMap_insert(@, name, value)]

RECURSIVE Environment_assign(_, _, _, _)
\* Environment::assign on cell `id`; the heap after it and the result
Environment_assign(id, name, value, heap) ==
    IF HashMap_contains_key(heap[id].values, name)
    THEN [heap |-> [heap EXCEPT ![id].values = HashMap_insert(@, name, value)],
          r |-> Ok]
    ELSE IF is_some(heap[id].enclosing)
    THEN Environment_assign(unwrap(heap[id].enclosing), name, value, heap)
    ELSE [heap |-> heap,
          r |-> Err(InterpretError_new("Undefined variable '", value.token))]

\* Environment::assign_at: the insert goes into the clone that ancestor
\* returns, which is dropped at the end of the statement
Environment_assign_at(self, distance, name, value, heap) ==
    LET with_a(a) ==
        IF a.kind = "panic" THEN [heap |-> heap, r |-> a]
        ELSE LET written == Environment_define(a.env, name, value)
             IN  [heap |-> heap, r |-> Ok]
    IN  with_a(Environment_ancestor(self, distance, heap))

\* Environment::assign_global: the insert goes into a clone of the root
Environment_assign_global(self, name, value, heap) ==
    LET environment == Environment_root(self, heap)
        written == Environment_define(environment, name, value)
    IN  [heap |-> heap, r |-> Ok]

(***************************************************************************)
(* The resolver.  R holds the Resolver's `stacks`, the `locals` of the     *)
(* interpreter it borrows, and `diags`, what crate::error has printed.     *)
(***************************************************************************)
\* crate::error(line, message)
error(diags, line, message) ==
    Append(diags, [line |-> line, message |-> message])

\* Interpreter::resolve with an insert that adds to the entry it finds
Interpreter_resolve_accumulates(locals, expr, depth) ==
    IF HashMap_contains_key(locals, expr)
    THEN HashMap_insert(locals, expr, locals[expr] + depth + 1)
    ELSE HashMap_insert(locals, expr, depth)

\* Interpreter::resolve
Interpreter_resolve(locals, expr, depth) == HashMap_insert(locals, expr, depth)

Resolver_new(locals) == [stacks |-> << >>, locals |-> locals, diags |-> << >>]

Resolver_begin_scope(R) == [R EXCEPT !.stacks = Append(@, HashMap_new)]

Resolver_end_scope(R) == [R EXCEPT !.stacks = SubSeq(@, 1, Len(@) - 1)]

\* Resolver::declare
Resolver_declare(R, name) ==
    IF Len(R.stacks) > 0
    THEN IF HashMap_contains_key(R.stacks[Len(R.stacks)], name.lexeme)
         THEN [R |-> R,
               r |-> Err(InterpretError_new(
                   "Variable with this name already declared in this scope.",
                   name))]
         ELSE [R |-> [R EXCEPT !.stacks[Len(R.stacks)] =
                          HashMap_insert(@, name.lexeme, FALSE)],
               r |-> Ok]
    ELSE [R |-> R, r |-> Ok]

\* Resolver::define
Resolver_define(R, name) ==
    IF Len(R.stacks) > 0
    THEN [R |-> [R EXCEPT !.stacks[Len(R.stacks)] =
                     HashMap_insert(@, name.lexeme, TRUE)],
          r |-> Ok]
    ELSE [R |-> R, r |-> Ok]

RECURSIVE resolve_local_loop(_, _, _, _)
\* the loop of resolve_local over stacks.iter().enumerate().rev(); the
\* scope at position j of the sequence has the index i = j - 1 of the Vec
resolve_local_loop(R, expr, name, j) ==
    IF j = 0 THEN R
    ELSE IF HashMap_contains_key(R.stacks[j], name.lexeme)
    THEN [R EXCEPT !.locals = Interpreter_resolve(@, expr, j - 1)]
    ELSE resolve_local_loop(R, expr, name, j - 1)

\* Resolver::resolve_local
Resolver_resolve_local(R, expr, name) ==
    resolve_local_loop(R, expr, name, Len(R.stacks))

\* the check both resolve_expr and resolve_var_expr make before resolving a
\* Variable: it prints, and resolution goes on
Resolver_check_own_initializer(R, name) ==
    IF /\ Len(R.stacks) > 0
       /\ HashMap_contains_key(R.stacks[Len(R.stacks)], name.lexeme)
       /\ R.stacks[Len(R.stacks)][name.lexeme] = FALSE
    THEN [R EXCEPT !.diags = error(@, name.line,
              "Cannot read local variable in its own initializer.")]
    ELSE R

\* Resolver::resolve_var_expr
Resolver_resolve_var_expr(R, expr) ==
    IF expr.k = "Variable"
    THEN [R |-> Resolver_resolve_local(
                    Resolver_check_own_initializer(R, expr.name),
                    expr, expr.name),
          r |-> Ok]
    ELSE [R |-> R, r |-> Ok]

RECURSIVE Resolver_resolve(_, _)
RECURSIVE Resolver_resolve_stmt(_, _)
RECURSIVE Resolver_resolve_expr(_, _)
RECURSIVE Resolver_resolve_exprs(_, _)
RECURSIVE Resolver_resolve_function(_, _, _)
RECURSIVE Resolver_resolve_methods(_, _)

\* the loop `for param in params { declare(param)?; define(param)?; }`
RECURSIVE Resolver_declare_params(_, _)
Resolver_declare_params(R, params) ==
    IF Len(params) = 0 THEN [R |-> R, r |-> Ok]
    ELSE LET with_d(d) ==
             IF d.r.kind # "ok" THEN d
             ELSE Resolver_declare_params(
                      Resolver_define(d.R, Head(params)).R, Tail(params))
         IN  with_d(Resolver_declare(R, Head(params)))

\* Resolver::resolve_function
Resolver_resolve_function(R, params, stmts) ==
    LET with_p(p) ==
        IF p.r.kind # "ok" THEN p
        ELSE LET with_b(b) ==
                 IF b.r.kind # "ok" THEN b
                 ELSE [R |-> Resolver_end_scope(b.R), r |-> Ok]
             IN  with_b(Resolver_resolve(p.R, stmts))
    IN  with_p(Resolver_declare_params(Resolver_begin_scope(R), params))

\* Resolver::resolve
Resolver_resolve(R, stmts) ==
    IF Len(stmts) = 0 THEN [R |-> R, r |-> Ok]
    ELSE LET with_s(s) ==
             IF s.r.kind # "ok" THEN s ELSE Resolver_resolve(s.R, Tail(stmts))
         IN  with_s(Resolver_resolve_stmt(R, Head(stmts)))

\* Stmt::Class, which resolver.rs has no arm for: declare and define the
\* name, then resolve each method as a function
Resolver_resolve_stmt_Class(R, stmt) ==
    LET with_d(d) ==
        IF d.r.kind # "ok" THEN d
        ELSE Resolver_resolve_methods(Resolver_define(d.R, stmt.name).R,
                                      stmt.methods)
    IN  with_d(Resolver_declare(R, stmt.name))

Resolver_resolve_methods(R, methods) ==
    IF Len(methods) = 0 THEN [R |-> R, r |-> Ok]
    ELSE LET with_m(m) ==
             IF m.r.kind # "ok" THEN m
             ELSE Resolver_resolve_methods(m.R, Tail(methods))
         IN  with_m(Resolver_resolve_function(R, Head(methods).params,
                                            Head(methods).body))

\* Resolver::resolve_stmt
Resolver_resolve_stmt(R, stmt) ==
    CASE stmt.k = "Function" ->
           LET with_d(d) ==
               IF d.r.kind # "ok" THEN d
               ELSE Resolver_resolve_function(
                        Resolver_define(d.R, stmt.name).R, stmt.params,
                        stmt.body)
           IN  with_d(Resolver_declare(R, stmt.name))
      [] stmt.k \in {"Expr", "Print", "Assign"} ->
           Resolver_resolve_expr(R, stmt.expr)
      [] stmt.k = "If" ->
           LET with_c(c) ==
               IF c.r.kind # "ok" THEN c
               ELSE LET with_t(t) ==
                        IF t.r.kind # "ok" \/ is_none(stmt.else_branch) THEN t
                        ELSE Resolver_resolve_stmt(t.R,
                                                   unwrap(stmt.else_branch))
                    IN  with_t(Resolver_resolve_stmt(c.R, stmt.then_branch))
           IN  with_c(Resolver_resolve_expr(R, stmt.condition))
      [] stmt.k = "Return" ->
           IF is_some(stmt.value)
           THEN Resolver_resolve_expr(R, unwrap(stmt.value))
           ELSE [R |-> R, r |-> Ok]
      [] stmt.k = "While" ->
           LET with_c(c) ==
               IF c.r.kind # "ok" THEN c
               ELSE Resolver_resolve_stmt(c.R, stmt.body)
           IN  with_c(Resolver_resolve_expr(R, stmt.condition))
      [] stmt.k = "Block" ->
           LET with_b(b) ==
               IF b.r.kind # "ok" THEN b
               ELSE [R |-> Resolver_end_scope(b.R), r |-> Ok]
           IN  with_b(Resolver_resolve(Resolver_begin_scope(R), stmt.stmts))
      [] stmt.k = "Var" ->
           LET with_d(d) ==
               IF d.r.kind # "ok" THEN d
               ELSE IF is_some(stmt.initializer)
               THEN LET with_i(i) ==
                        IF i.r.kind # "ok" THEN i
                        ELSE Resolver_define(i.R, stmt.name)
                    IN  with_i(Resolver_resolve_expr(d.R,
                                                   unwrap(stmt.initializer)))
               ELSE Resolver_define(d.R, stmt.name)
           IN  with_d(Resolver_declare(R, stmt.name))
      [] stmt.k = "Break" -> [R |-> R, r |-> Ok]
      [] stmt.k = "Class" -> Resolver_resolve_stmt_Class(R, stmt)

\* the loop `for arg in call.arguments { self.resolve_expr(arg)?; }`
Resolver_resolve_exprs(R, exprs) ==
    IF Len(exprs) = 0 THEN [R |-> R, r |-> Ok]
    ELSE LET with_e(e) ==
             IF e.r.kind # "ok" THEN e
             ELSE Resolver_resolve_exprs(e.R, Tail(exprs))
         IN  with_e(Resolver_resolve_expr(R, Head(exprs)))

\* Expr::Get and Expr::Set, which resolver.rs has no arm for: structural
\* recursion
Resolver_resolve_expr_Get_Set(R, expr) ==
    IF expr.k = "Get" THEN Resolver_resolve_expr(R, expr.expr)
    ELSE Resolver_resolve_exprs(R, << expr.value, expr.expr >>)

\* Resolver::resolve_expr
Resolver_resolve_expr(R, expr) ==
    CASE expr.k = "Call" ->
           Resolver_resolve_exprs(R, << expr.callee >> \o expr.arguments)
      [] expr.k = "Assign" ->
           LET with_v(v) ==
               IF v.r.kind # "ok" THEN v
               ELSE [R |-> Resolver_resolve_local(v.R, expr.value, expr.name),
                     r |-> Ok]
           IN  with_v(Resolver_resolve_expr(R, expr.value))
      [] expr.k \in {"Binary", "Logical"} ->
           Resolver_resolve_exprs(R, << expr.left, expr.right >>)
      [] expr.k = "Grouping" -> Resolver_resolve_expr(R, expr.expression)
      [] expr.k = "Literal" -> [R |-> R, r |-> Ok]
      [] expr.k = "Unary" -> Resolver_resolve_expr(R, expr.right)
      [] expr.k = "Variable" ->
           Resolver_resolve_var_expr(
               Resolver_check_own_initializer(R, expr.name), expr)
      [] expr.k = "Ternary" ->
           Resolver_resolve_exprs(
               R, << expr.condition, expr.then_branch, expr.else_branch >>)
      [] expr.k \in {"Get", "Set"} -> Resolver_resolve_expr_Get_Set(R, expr)

(***************************************************************************)
(* The interpreter.  S holds the Interpreter's fields `environment` and    *)
(* `locals` together with what its methods reach through them: `heap`, the *)
(* environment cells, and `out`, the lines printed on stdout.  `log`,      *)
(* `lvl` and `depth` record the run for the properties below: `log` is the *)
(* sequence of the calls of interpret, interpret_expr, look_up_var and     *)
(* Callable::call and of their returns, `lvl` the nesting of the calls of  *)
(* interpret and interpret_expr, `depth` the nesting of Callable::call.    *)
(***************************************************************************)
Observe(S, event) == [S EXCEPT !.log = Append(@, event)]

Observe_enter(S, n, node) ==
    [Observe(S, [ev |-> "enter", n |-> n, node |-> node, lvl |-> S.lvl,
                 depth |-> S.depth, env |-> S.environment,
                 cells |-> Len(S.heap)])
     EXCEPT !.lvl = @ + 1]

Observe_exit(S0, n, node, res) ==
    [S |-> [Observe(res.S, [ev |-> "exit", n |-> n, node |-> node,
                            lvl |-> S0.lvl, depth |-> S0.depth,
                            env0 |-> S0.environment,
                            env |-> res.S.environment, r |-> res.r])
            EXCEPT !.lvl = S0.lvl],
     r |-> res.r]

RECURSIVE Environment_chain(_, _)
\* the `values` of cell `id` and of the cells its enclosing links lead to
Environment_chain(id, heap) ==
    << heap[id].values >> \o
    (IF is_some(heap[id].enclosing)
     THEN Environment_chain(unwrap(heap[id].enclosing), heap) ELSE << >>)

\* Interpreter::new
Interpreter_new(environment) ==
    [environment |-> environment, locals |-> HashMap_new]

\* Interpreter::define
Interpreter_define(S, name, value) ==
    [S EXCEPT !.heap[S.environment] = Environment_define(@, name, value)]

\* Interpreter::get_local
Interpreter_get_local(S, expr) ==
    IF HashMap_contains_key(S.locals, expr) THEN Some(S.locals[expr]) ELSE None

\* Interpreter::assign
Interpreter_assign(S, token, value) ==
    LET with_a(a) ==
        [S |-> [S EXCEPT !.heap = a.heap], r |-> a.r]
    IN  with_a(Environment_assign(S.environment, token.lexeme, value, S.heap))

\* Interpreter::new_environment
Interpreter_new_environment(S) ==
    [S EXCEPT !.heap = Append(@, Environment_new(S.environment)),
              !.environment = Len(S.heap) + 1]

\* Interpreter::look_up_var
Interpreter_look_up_var(S, name, expr) ==
    LET distance == Interpreter_get_local(S, expr)
        with_g(g) ==
            IF g.kind = "panic" THEN g
            ELSE IF is_some(g.value) THEN OkValue(unwrap(g.value))
            ELSE Err(InterpretError_new(
                     "Undefined variable '" \o name.lexeme \o "'.", name))
        with_r(r) ==
            [S |-> Observe(S, [ev |-> "read", expr |-> expr, name |-> name,
                               distance |-> distance, env |-> S.environment,
                               chain |-> Environment_chain(S.environment,
                                                           S.heap),
                               r |-> r]),
             r |-> r]
    IN  with_r(with_g(
            IF is_some(distance)
            THEN Environment_get(S.heap[S.environment], unwrap(distance),
                                 name.lexeme, S.heap)
            ELSE Environment_get_global(S.heap[S.environment], name.lexeme,
                                        S.heap)))

\* an is_truthy that holds of Boolean(true) only, the test of Stmt::If
Interpreter_is_truthy_strict(value) == Primitive_is_true(value.primitive)

\* Interpreter::is_truthy
Interpreter_is_truthy(value) ==
    CASE value.primitive.t = "Nil" -> FALSE
      [] value.primitive.t = "Boolean" -> value.primitive.v
      [] OTHER -> TRUE

\* f64's Display, and its FromStr on the lexeme of a NUMBER token
f64_to_string(n) == ToString(n)
f64_parse(lexeme) ==
    IF \E n \in 0..MaxNum : ToString(n) = lexeme
    THEN Some(CHOOSE n \in 0..MaxNum : ToString(n) = lexeme) ELSE None

RECURSIVE join(_, _)
\* Vec<String>::join
join(strings, separator) ==
    IF Len(strings) = 0 THEN ""
    ELSE IF Len(strings) = 1 THEN strings[1]
    ELSE strings[1] \o separator \o join(Tail(strings), separator)

\* impl Display for Primitive
Primitive_fmt(p) ==
    CASE p.t = "Number" -> f64_to_string(p.v)
      [] p.t = "Boolean" -> IF p.v THEN "true" ELSE "false"
      [] p.t = "Nil" -> "nil"
      [] p.t = "String" -> "\"" \o p.v \o "\""
      [] p.t = "Callable" ->
           "<fn> " \o p.callable.name.lexeme \o "(" \o
           join([i \in 1..Len(p.callable.params) |->
                    p.callable.params[i].lexeme], ", ") \o ")"
      [] p.t = "Class" -> p.class.name.lexeme
      [] p.t = "Instance" -> p.instance.class.name.lexeme \o " instance"

\* println!
println(S, line) == [S EXCEPT !.out = Append(@, line)]

\* Interpreter::to_number
Interpreter_to_number(value) ==
    IF value.primitive.t = "Number" THEN [kind |-> "ok", number |-> value.primitive.v]
    ELSE Err(InterpretError_new(
             "Expected number, got " \o Primitive_fmt(value.primitive),
             value.token))

\* Interpreter::is_equal
Interpreter_is_equal(left, right) ==
    CASE left.primitive.t = "Nil" /\ right.primitive.t = "Nil" -> TRUE
      [] left.primitive.t = "Boolean" /\ right.primitive.t = "Boolean" ->
           left.primitive.v = right.primitive.v
      [] left.primitive.t = "Number" /\ right.primitive.t = "Number" ->
           left.primitive.v = right.primitive.v
      [] left.primitive.t = "String" /\ right.primitive.t = "String" ->
           left.primitive.v = right.primitive.v
      [] OTHER -> FALSE

\* the test `.primitive == Primitive::Boolean(true)` of Stmt::If and
\* Stmt::While
Interpreter_condition_holds(condition) == Primitive_is_true(condition.primitive)

RECURSIVE Interpreter_interpret(_, _)
RECURSIVE Interpreter_interpret_block(_, _)
RECURSIVE Interpreter_interpret_expr(_, _)
RECURSIVE Interpreter_while_loop(_, _, _)
RECURSIVE Interpreter_call_arguments(_, _, _)
RECURSIVE Callable_call(_, _, _)

RECURSIVE Callable_define_params(_, _, _, _)
\* the loop of Callable::call that defines self.params[i] as args[i]
Callable_define_params(S, callable, args, i) ==
    IF i > Len(args) THEN [S |-> S, r |-> Ok]
    ELSE IF i > Len(callable.params)
    THEN [S |-> S, r |-> Panic("index out of bounds")]
    ELSE Callable_define_params(
             Interpreter_define(S, callable.params[i].lexeme, args[i]),
             callable, args, i + 1)

\* a Callable::call that hands every Err on, the Return signal too
Callable_call_result_leaks(r) ==
    IF r.kind = "ok"
    THEN OkValue(Value(Primitive_Nil, Token_new("NIL", "nil", 0)))
    ELSE r

\* the match of Callable::call on what interpret_block returned
Callable_call_result(r) ==
    CASE r.kind = "ok" ->
           OkValue(Value(Primitive_Nil, Token_new("NIL", "nil", 0)))
      [] r.kind = "err" ->
           IF is_some(r.err.value) THEN OkValue(unwrap(r.err.value)) ELSE r
      [] OTHER -> r

\* impl LoxCallable for Callable: call.  The new Interpreter starts at the
\* closure; the caller's Interpreter keeps its environment.
Callable_call(callable, args, S) ==
    LET with_r(b, r) ==
            [S |-> [Observe(b.S, [ev |-> "return", depth |-> S.depth + 1,
                                  r |-> r])
                    EXCEPT !.environment = S.environment, !.depth = S.depth],
             r |-> r]
        with_b(b) == with_r(b, Callable_call_result(b.r))
        with_p(p) ==
            with_b(IF p.r.kind = "ok"
                   THEN Interpreter_interpret_block(callable.body, p.S)
                   ELSE p)
        with_N1(N1) ==
            with_p(Callable_define_params(
                       Observe(N1, [ev |-> "call", callable |-> callable,
                                    frame |-> N1.environment,
                                    depth |-> N1.depth]),
                       callable, args, 1))
    IN  with_N1(Interpreter_new_environment(
                    [S EXCEPT !.environment = callable.closure,
                              !.depth = @ + 1]))

\* Stmt::Return
Interpreter_interpret_Return(stmt, S) ==
    IF is_some(stmt.value)
    THEN LET with_e(e) ==
             IF e.r.kind # "ok" THEN e
             ELSE [S |-> e.S,
                   r |-> Err(InterpretError_with_value(
                             "Successful return", stmt.keyword, e.r.value))]
         IN  with_e(Interpreter_interpret_expr(unwrap(stmt.value), S))
    ELSE [S |-> S,
          r |-> Err(InterpretError_with_value(
                    "Successful return", stmt.keyword,
                    Value(Primitive_Nil,
                          Token_new("NIL", "nil", stmt.keyword.line))))]

\* Stmt::Expr
Interpreter_interpret_Expr(stmt, S) ==
    LET with_e(e) ==
        IF e.r.kind # "ok" THEN e ELSE [S |-> e.S, r |-> Ok]
    IN  with_e(Interpreter_interpret_expr(stmt.expr, S))

\* Stmt::Print
Interpreter_interpret_Print(stmt, S) ==
    LET with_e(e) ==
        IF e.r.kind # "ok" THEN e
        ELSE [S |-> println(e.S, Primitive_fmt(e.r.value.primitive)),
              r |-> Ok]
    IN  with_e(Interpreter_interpret_expr(stmt.expr, S))

\* Stmt::Var
Interpreter_interpret_Var(stmt, S) ==
    IF is_some(stmt.initializer)
    THEN LET with_e(e) ==
             IF e.r.kind # "ok" THEN e
             ELSE [S |-> Interpreter_define(e.S, stmt.name.lexeme, e.r.value),
                   r |-> Ok]
         IN  with_e(Interpreter_interpret_expr(unwrap(stmt.initializer), S))
    ELSE [S |-> Interpreter_define(
                    S, stmt.name.lexeme,
                    Value(Primitive_Nil,
                          Token_new("NIL", "nil", stmt.name.line))),
          r |-> Ok]

\* Stmt::Assign
Interpreter_interpret_Assign(stmt, S) ==
    LET with_e(e) ==
        IF e.r.kind # "ok" THEN e
        ELSE Interpreter_assign(e.S, stmt.name, e.r.value)
    IN  with_e(Interpreter_interpret_expr(stmt.expr, S))

\* a Stmt::Block that restores the environment on Ok only
Interpreter_interpret_Block_on_ok(stmt, S) ==
    LET with_b(b) ==
        IF b.r.kind # "ok" THEN b
        ELSE [S |-> [b.S EXCEPT !.environment = S.environment], r |-> b.r]
    IN  with_b(Interpreter_interpret_block(stmt.stmts,
                                         Interpreter_new_environment(S)))

\* Stmt::Block
Interpreter_interpret_Block(stmt, S) ==
    LET with_b(b) ==
        IF b.r.kind = "panic" THEN b
        ELSE [S |-> [b.S EXCEPT !.environment = S.environment], r |-> b.r]
    IN  with_b(Interpreter_interpret_block(stmt.stmts,
                                         Interpreter_new_environment(S)))

\* Stmt::If
Interpreter_interpret_If(stmt, S) ==
    LET with_c(c) ==
        IF c.r.kind # "ok" THEN c
        ELSE IF Interpreter_condition_holds(c.r.value)
        THEN Interpreter_interpret(stmt.then_branch, c.S)
        ELSE IF is_some(stmt.else_branch)
        THEN Interpreter_interpret(unwrap(stmt.else_branch), c.S)
        ELSE [S |-> c.S, r |-> Ok]
    IN  with_c(Interpreter_interpret_expr(stmt.condition, S))

\* Stmt::While, after n iterations
Interpreter_while_loop(stmt, S, n) ==
    LET with_c(c) ==
        IF c.r.kind # "ok" THEN c
        ELSE IF ~Interpreter_condition_holds(c.r.value)
        THEN [S |-> c.S, r |-> Ok]
        ELSE IF n >= MaxIter THEN [S |-> c.S, r |-> CutOff]
        ELSE LET with_b(b) ==
                 IF b.r.kind # "ok" THEN b
                 ELSE Interpreter_while_loop(stmt, b.S, n + 1)
             IN  with_b(Interpreter_interpret(stmt.body, c.S))
    IN  with_c(Interpreter_interpret_expr(stmt.condition, S))

\* Stmt::Function
Interpreter_interpret_Function(stmt, S) ==
    LET callable == Callable_new(stmt.name, stmt.params, stmt.body,
                                 S.environment)
        value == Value(Primitive_Callable(callable), stmt.name)
    IN  [S |-> Interpreter_define(S, stmt.name.lexeme, value), r |-> Ok]

\* Stmt::Class
Interpreter_interpret_Class(stmt, S) ==
    LET class == Class_new(stmt.name, stmt.methods)
        value == Value(Primitive_Class(class), stmt.name)
    IN  [S |-> Interpreter_define(S, class.name.lexeme, value), r |-> Ok]

\* the match of Interpreter::interpret
Interpreter_interpret_match(stmt, S) ==
    CASE stmt.k = "Return" -> Interpreter_interpret_Return(stmt, S)
      [] stmt.k = "Expr" -> Interpreter_interpret_Expr(stmt, S)
      [] stmt.k = "Print" -> Interpreter_interpret_Print(stmt, S)
      [] stmt.k = "Var" -> Interpreter_interpret_Var(stmt, S)
      [] stmt.k = "Assign" -> Interpreter_interpret_Assign(stmt, S)
      [] stmt.k = "Block" -> Interpreter_interpret_Block(stmt, S)
      [] stmt.k = "If" -> Interpreter_interpret_If(stmt, S)
      [] stmt.k = "While" -> Interpreter_while_loop(stmt, S, 0)
      [] stmt.k = "Function" -> Interpreter_interpret_Function(stmt, S)
      [] stmt.k = "Class" -> Interpreter_interpret_Class(stmt, S)
      [] stmt.k = "Break" -> [S |-> S, r |-> Panic("not yet implemented")]

\* Interpreter::interpret
Interpreter_interpret(stmt, S) ==
    Observe_exit(S, "stmt", stmt,
        Interpreter_interpret_match(stmt, Observe_enter(S, "stmt", stmt)))

\* Interpreter::interpret_block
Interpreter_interpret_block(stmts, S) ==
    IF Len(stmts) = 0 THEN [S |-> S, r |-> Ok]
    ELSE LET with_s(s) ==
             IF s.r.kind # "ok" THEN s
             ELSE Interpreter_interpret_block(Tail(stmts), s.S)
         IN  with_s(Interpreter_interpret(Head(stmts), S))

\* f64 arithmetic, on the integers; a quotient that is no integer is kept
\* as the fraction it is
f64_div(left, right) ==
    LET abs(n) == IF n < 0 THEN -n ELSE n
        sign == IF (left < 0) = (right < 0) THEN 1 ELSE -1
    IN  IF abs(left) % abs(right) = 0
        THEN sign * (abs(left) \div abs(right))
        ELSE [num |-> left, den |-> right]

\* the error of the arithmetic arms of Expr::Binary
Interpreter_operands_error(what, symbol, left, right, operator) ==
    Err(InterpretError_new(
        what \o left.token.lexeme \o symbol \o right.token.lexeme, operator))

\* the comparison arms of Expr::Binary: to_number(left)? before
\* to_number(right)?
Interpreter_compare(operator, left, right) ==
    LET l == Interpreter_to_number(left)
        r == Interpreter_to_number(right)
    IN  IF l.kind # "ok" THEN l
        ELSE IF r.kind # "ok" THEN r
        ELSE OkValue(Value(Primitive_Boolean(
                 CASE operator.lexeme = ">" -> l.number > r.number
                   [] operator.lexeme = ">=" -> l.number >= r.number
                   [] operator.lexeme = "<" -> l.number < r.number
                   [] operator.lexeme = "<=" -> l.number <= r.number),
                 operator))

\* Expr::Binary, once both operands are values: the match on the lexeme of
\* the operator
Interpreter_binary(operator, left, right) ==
    LET lt == left.primitive.t
        rt == right.primitive.t
        numbers == lt = "Number" /\ rt = "Number"
    IN  CASE operator.lexeme = "-" ->
               IF numbers
               THEN OkValue(Value(Primitive_Number(
                        left.primitive.v - right.primitive.v), operator))
               ELSE Interpreter_operands_error(
                        "Operands must be two numbers: ", " - ", left, right,
                        operator)
          [] operator.lexeme = "*" ->
               IF numbers
               THEN OkValue(Value(Primitive_Number(
                        left.primitive.v * right.primitive.v), operator))
               ELSE Interpreter_operands_error(
                        "Operands must be two numbers: ", " * ", left, right,
                        operator)
          [] operator.lexeme = "/" ->
               IF numbers
               THEN IF right.primitive.v = 0
                    THEN Err(InterpretError_new("Division by zero.", operator))
                    ELSE OkValue(Value(Primitive_Number(
                             f64_div(left.primitive.v, right.primitive.v)),
                             operator))
               ELSE Interpreter_operands_error(
                        "Operands must be two numbers: ", " / ", left, right,
                        operator)
          [] operator.lexeme = "+" ->
               CASE numbers ->
                      OkValue(Value(Primitive_Number(
                          left.primitive.v + right.primitive.v), operator))
                 [] lt = "String" /\ rt = "String" ->
                      OkValue(Value(Primitive_String(
                          left.primitive.v \o right.primitive.v), operator))
                 [] lt = "String" /\ rt = "Number" ->
                      OkValue(Value(Primitive_String(
                          left.primitive.v \o f64_to_string(right.primitive.v)),
                          operator))
                 [] lt = "Number" /\ rt = "String" ->
                      OkValue(Value(Primitive_String(
                          f64_to_string(left.primitive.v) \o right.primitive.v),
                          operator))
                 [] OTHER ->
                      Interpreter_operands_error(
                          "Operands must be two numbers or two strings: ",
                          " + ", left, right, operator)
          [] operator.lexeme \in {">", ">=", "<", "<="} ->
               Interpreter_compare(operator, left, right)
          [] operator.lexeme = "!=" ->
               OkValue(Value(Primitive_Boolean(
                   ~Interpreter_is_equal(left, right)), operator))
          [] operator.lexeme = "==" ->
               OkValue(Value(Primitive_Boolean(
                   Interpreter_is_equal(left, right)), operator))
          [] OTHER ->
               Interpreter_operands_error(
                   "Operands must be two numbers or two strings: ", " + ",
                   left, right, operator)

\* Expr::Binary
Interpreter_interpret_expr_Binary(expr, S) ==
    LET with_left(left) ==
        IF left.r.kind # "ok" THEN left
        ELSE LET with_right(right) ==
                 IF right.r.kind # "ok" THEN right
                 ELSE [S |-> right.S,
                       r |-> Interpreter_binary(expr.operator, left.r.value,
                                                right.r.value)]
             IN  with_right(Interpreter_interpret_expr(expr.right, left.S))
    IN  with_left(Interpreter_interpret_expr(expr.left, S))

\* Expr::Get
Interpreter_interpret_expr_Get(expr, S) ==
    LET with_object(object) ==
        IF object.r.kind # "ok" THEN object
        ELSE LET S1 == println(object.S, "Object we're getting: {:?}")
             IN  IF object.r.value.primitive.t = "Instance"
                 THEN [S |-> S1,
                       r |-> Instance_get(object.r.value.primitive.instance,
                                          expr.name)]
                 ELSE [S |-> S1,
                       r |-> Err(InterpretError_new(
                                 "Only instances have properties.", expr.name))]
    IN  with_object(Interpreter_interpret_expr(expr.expr, S))

\* Expr::Set: `instance` is the Instance that evaluating the object gave,
\* a value of its own; instance.set changes it and it is dropped
Interpreter_interpret_expr_Set(expr, S) ==
    LET with_object(object) ==
        IF object.r.kind # "ok" THEN object
        ELSE IF object.r.value.primitive.t = "Instance"
        THEN LET with_value(value) ==
                 IF value.r.kind # "ok" THEN value
                 ELSE LET instance == Instance_set(
                              object.r.value.primitive.instance, expr.name,
                              value.r.value)
                      IN  [S |-> println(println(value.S,
                                     "Instace fields before: {:?}"),
                                     "Instance fields after: {:?}"),
                           r |-> OkValue(value.r.value)]
             IN  with_value(Interpreter_interpret_expr(expr.value, object.S))
        ELSE [S |-> object.S,
              r |-> Err(InterpretError_new("Only instances have fields.",
                                           expr.name))]
    IN  with_object(Interpreter_interpret_expr(expr.expr, S))

\* the loop of Expr::Call that evaluates the arguments; `arguments` holds
\* the values pushed so far
Interpreter_call_arguments(exprs, S, arguments) ==
    IF Len(exprs) = 0 THEN [S |-> S, r |-> Ok, arguments |-> arguments]
    ELSE LET with_a(a) ==
             IF a.r.kind # "ok"
             THEN [S |-> a.S, r |-> a.r, arguments |-> arguments]
             ELSE Interpreter_call_arguments(Tail(exprs), a.S,
                                             Append(arguments, a.r.value))
         IN  with_a(Interpreter_interpret_expr(Head(exprs), S))

\* an Expr::Call that checks no arity
Interpreter_arity_mismatch_never(arguments, arity) == FALSE

\* the arity checks of Expr::Call
Interpreter_arity_mismatch(arguments, arity) == Len(arguments) # arity

\* Expr::Call
Interpreter_interpret_expr_Call(expr, S) ==
    LET with_callee(callee) ==
        IF callee.r.kind # "ok" THEN callee
        ELSE
        LET with_a(a, p) ==
            LET expected(arity) ==
                Err(InterpretError_new(
                    "Expected " \o ToString(arity) \o " arguments but got " \o
                    ToString(Len(a.arguments)) \o ".", expr.paren))
            IN
            IF a.r.kind # "ok" THEN [S |-> a.S, r |-> a.r]
            ELSE CASE p.t = "Callable" ->
                        IF Interpreter_arity_mismatch(a.arguments,
                                                      p.callable.arity)
                        THEN [S |-> a.S, r |-> expected(p.callable.arity)]
                        ELSE Callable_call(p.callable, a.arguments, a.S)
                   [] p.t = "Class" ->
                        IF Interpreter_arity_mismatch(a.arguments, 0)
                        THEN [S |-> a.S, r |-> expected(0)]
                        ELSE [S |-> a.S,
                              r |-> OkValue(Value(
                                  Primitive_Instance(Instance_new(p.class)),
                                  expr.paren))]
                   [] OTHER ->
                        [S |-> a.S,
                         r |-> Err(InterpretError_new(
                                   "Can only call functions and classes.",
                                   expr.paren))]
        IN  with_a(Interpreter_call_arguments(expr.arguments, callee.S,
                                              << >>),
                   callee.r.value.primitive)
    IN  with_callee(Interpreter_interpret_expr(expr.callee, S))

\* Expr::Literal
Interpreter_interpret_expr_Literal(expr, S) ==
    LET token == expr.value
        number == f64_parse(token.lexeme)
    IN  [S |-> S,
         r |-> CASE token.token_type = "FALSE" ->
                      OkValue(Value(Primitive_Boolean(FALSE), token))
                 [] token.token_type = "TRUE" ->
                      OkValue(Value(Primitive_Boolean(TRUE), token))
                 [] token.token_type = "NIL" ->
                      OkValue(Value(Primitive_Nil, token))
                 [] token.token_type = "NUMBER" ->
                      IF is_some(number)
                      THEN OkValue(Value(Primitive_Number(unwrap(number)),
                                         token))
                      ELSE Panic("unwrap on Err")
                 [] token.token_type = "STRING" ->
                      OkValue(Value(Primitive_String(token.lexeme), token))
                 [] OTHER ->
                      Err(InterpretError_new(
                          "Unknown literal: " \o token.lexeme, token))]

\* Expr::Unary
Interpreter_interpret_expr_Unary(expr, S) ==
    LET with_right(right) ==
        LET with_n(n) ==
        IF right.r.kind # "ok" THEN right
        ELSE [S |-> right.S,
              r |-> CASE expr.operator.lexeme = "!" ->
                           OkValue(Value(Primitive_Boolean(
                               ~Interpreter_is_truthy(right.r.value)),
                               expr.operator))
                      [] expr.operator.lexeme = "-" ->
                           IF n.kind # "ok" THEN n
                           ELSE OkValue(Value(Primitive_Number(-n.number),
                                              expr.operator))
                      [] OTHER ->
                           Err(InterpretError_new(
                               "Unknown unary operator: " \o
                               expr.operator.lexeme, expr.operator))]
        IN  with_n(Interpreter_to_number(right.r.value))
    IN  with_right(Interpreter_interpret_expr(expr.right, S))

\* Expr::Ternary
Interpreter_interpret_expr_Ternary(expr, S) ==
    LET with_condition(condition) ==
        IF condition.r.kind # "ok" THEN condition
        ELSE IF Interpreter_is_truthy(condition.r.value)
        THEN Interpreter_interpret_expr(expr.then_branch, condition.S)
        ELSE Interpreter_interpret_expr(expr.else_branch, condition.S)
    IN  with_condition(Interpreter_interpret_expr(expr.condition, S))

\* Expr::Assign: the value is evaluated, written through assign_at or
\* assign_global, and evaluated once more for the result
Interpreter_interpret_expr_Assign(expr, S) ==
    LET distance == Interpreter_get_local(S, expr)
        with_w(value, w) ==
            IF value.r.kind # "ok" THEN value
            ELSE IF w.r.kind # "ok" THEN [S |-> value.S, r |-> w.r]
            ELSE Interpreter_interpret_expr(
                     expr.value, [value.S EXCEPT !.heap = w.heap])
        with_environment(value, environment) ==
            with_w(value,
                   IF is_some(distance)
                   THEN Environment_assign_at(environment, unwrap(distance),
                                              expr.name.lexeme, value.r.value,
                                              value.S.heap)
                   ELSE Environment_assign_global(environment,
                                                  expr.name.lexeme,
                                                  value.r.value, value.S.heap))
        with_value(value) ==
            with_environment(value, value.S.heap[value.S.environment])
    IN  with_value(Interpreter_interpret_expr(expr.value, S))

\* Expr::Logical
Interpreter_interpret_expr_Logical(expr, S) ==
    LET with_left(left) ==
        IF left.r.kind # "ok" THEN left
        ELSE IF expr.operator.token_type = "OR"
        THEN IF Interpreter_is_truthy(left.r.value) THEN left
             ELSE Interpreter_interpret_expr(expr.right, left.S)
        ELSE IF ~Interpreter_is_truthy(left.r.value) THEN left
             ELSE Interpreter_interpret_expr(expr.right, left.S)
    IN  with_left(Interpreter_interpret_expr(expr.left, S))

\* the match of Interpreter::interpret_expr
Interpreter_interpret_expr_match(expr, S) ==
    CASE expr.k = "Get" -> Interpreter_interpret_expr_Get(expr, S)
      [] expr.k = "Set" -> Interpreter_interpret_expr_Set(expr, S)
      [] expr.k = "Call" -> Interpreter_interpret_expr_Call(expr, S)
      [] expr.k = "Binary" -> Interpreter_interpret_expr_Binary(expr, S)
      [] expr.k = "Grouping" -> Interpreter_interpret_expr(expr.expression, S)
      [] expr.k = "Literal" -> Interpreter_interpret_expr_Literal(expr, S)
      [] expr.k = "Unary" -> Interpreter_interpret_expr_Unary(expr, S)
      [] expr.k = "Ternary" -> Interpreter_interpret_expr_Ternary(expr, S)
      [] expr.k = "Variable" -> Interpreter_look_up_var(S, expr.name, expr)
      [] expr.k = "Assign" -> Interpreter_interpret_expr_Assign(expr, S)
      [] expr.k = "Logical" -> Interpreter_interpret_expr_Logical(expr, S)

\* Interpreter::interpret_expr
Interpreter_interpret_expr(expr, S) ==
    Observe_exit(S, "expr", expr,
        Interpreter_interpret_expr_match(expr, Observe_enter(S, "expr", expr)))

(***************************************************************************)
(* The scanner.  `source` is the sequence of the chars of the String; a    *)
(* char is a string of its own.  String::len and the slices of the String  *)
(* count bytes, chars().nth counts chars.  sc holds the fields of the      *)
(* Scanner and `diags`, what crate::error has reported.                    *)
(***************************************************************************)
\* the char U+00E9, two bytes of UTF-8
E_ACUTE == "U+00E9"
\* '\0'
NUL == "U+0000"
Digits == {"0", "1", "2", "3", "4", "5", "6", "7", "8", "9"}
AsciiLetters ==
    {"a", "b", "c", "d", "e", "f", "g", "h", "i", "j", "k", "l", "m", "n", "o",
     "p", "q", "r", "s", "t", "u", "v", "w", "x", "y", "z", "A", "B", "C", "D",
     "E", "F", "G", "H", "I", "J", "K", "L", "M", "N", "O", "P", "Q", "R", "S",
     "T", "U", "V", "W", "X", "Y", "Z"}
\* char::is_digit(10) and char::is_alphanumeric
char_is_digit(c) == c \in Digits
char_is_alphanumeric(c) == c \in Digits \cup AsciiLetters \cup {E_ACUTE}
\* char::len_utf8
char_len_utf8(c) == IF c = E_ACUTE THEN 2 ELSE 1

RECURSIVE str_len(_)
\* String::len: the number of bytes
str_len(source) ==
    IF Len(source) = 0 THEN 0
    ELSE char_len_utf8(Head(source)) + str_len(Tail(source))

\* source.chars().nth(n)
chars_nth(source, n) == IF n < Len(source) THEN Some(source[n + 1]) ELSE None

RECURSIVE concat(_)
\* the String of a sequence of chars
concat(chars) == IF Len(chars) = 0 THEN "" ELSE Head(chars) \o concat(Tail(chars))

\* &source[from..to]: the chars between two byte offsets, a panic when an
\* offset is out of range or inside a char
str_slice(source, from, to) ==
    LET offset(i) == str_len(SubSeq(source, 1, i))
        at(b) == { i \in 0..Len(source) : offset(i) = b }
    IN  IF from > to \/ to > str_len(source) THEN Panic("byte index out of range")
        ELSE IF at(from) = {} \/ at(to) = {}
        THEN Panic("byte index is not a char boundary")
        ELSE [kind |-> "ok",
              chars |-> SubSeq(source, (CHOOSE i \in at(from) : TRUE) + 1,
                               CHOOSE i \in at(to) : TRUE)]

RECURSIVE trim_start_zeros(_)
trim_start_zeros(digits) ==
    IF Len(digits) > 1 /\ Head(digits) = "0" THEN trim_start_zeros(Tail(digits))
    ELSE digits
RECURSIVE trim_end_zeros(_)
trim_end_zeros(digits) ==
    IF Len(digits) > 0 /\ digits[Len(digits)] = "0"
    THEN trim_end_zeros(SubSeq(digits, 1, Len(digits) - 1))
    ELSE digits

\* str::parse::<f64>() followed by f64::to_string(), on what number() has
\* sliced: digits, or digits '.' digits; None when parse returns Err
f64_parse_to_string(chars) ==
    LET dots == { i \in 1..Len(chars) : chars[i] = "." }
        dot == IF dots = {} THEN Len(chars) + 1 ELSE CHOOSE i \in dots : TRUE
        int == SubSeq(chars, 1, dot - 1)
        frac == trim_end_zeros(SubSeq(chars, dot + 1, Len(chars)))
    IN  IF \/ Cardinality(dots) > 1
           \/ \E i \in 1..Len(chars) : chars[i] \notin Digits \cup {"."}
           \/ Len(chars) - Cardinality(dots) = 0
        THEN None
        ELSE Some(concat(trim_start_zeros(IF Len(int) = 0 THEN << "0" >> ELSE int)
                         \o (IF Len(frac) = 0 THEN << >> ELSE << "." >> \o frac)))

\* the KEYWORDS map
KEYWORDS ==
    [and |-> "AND", class |-> "CLASS", else |-> "ELSE", false |-> "FALSE",
     for |-> "FOR", fun |-> "FUN", if |-> "IF", nil |-> "NIL", or |-> "OR",
     print |-> "PRINT", return |-> "RETURN", super |-> "SUPER",
     this |-> "THIS", true |-> "TRUE", var |-> "VAR", while |-> "WHILE"]

match_keyword(identifier) ==
    IF identifier \in DOMAIN KEYWORDS THEN KEYWORDS[identifier] ELSE "IDENTIFIER"

\* Scanner::new
Scanner_new(source) ==
    [source |-> source, tokens |-> << >>, start |-> 0, current |-> 0,
     line |-> 1, diags |-> << >>]

Scanner_is_at_end(sc) == sc.current >= str_len(sc.source)

\* Scanner::peek and Scanner::peak_next
Scanner_peek(sc) ==
    IF Scanner_is_at_end(sc) THEN [kind |-> "ok", c |-> NUL]
    ELSE IF is_some(chars_nth(sc.source, sc.current))
    THEN [kind |-> "ok", c |-> unwrap(chars_nth(sc.source, sc.current))]
    ELSE Panic("unwrap on None")
Scanner_peak_next(sc) ==
    IF sc.current + 1 >= str_len(sc.source) THEN [kind |-> "ok", c |-> NUL]
    ELSE IF is_some(chars_nth(sc.source, sc.current + 1))
    THEN [kind |-> "ok", c |-> unwrap(chars_nth(sc.source, sc.current + 1))]
    ELSE Panic("unwrap on None")

\* Scanner::advance: the Scanner after it, and the char or the panic
Scanner_advance(sc) ==
    [sc |-> [sc EXCEPT !.current = @ + 1],
     r |-> IF is_some(chars_nth(sc.source, sc.current))
           THEN [kind |-> "ok", c |-> unwrap(chars_nth(sc.source, sc.current))]
           ELSE Panic("unwrap on None")]

\* Scanner::make_token
Scanner_make_token(sc, token_type, literal) ==
    [sc EXCEPT !.tokens = Append(@, Token_new(token_type, literal, sc.line))]

\* Scanner::match_char: the Scanner after it, and what it returned
Scanner_match_char(sc, char) ==
    IF Scanner_is_at_end(sc) THEN [sc |-> sc, r |-> FALSE]
    ELSE IF chars_nth(sc.source, sc.current) # Some(char)
    THEN [sc |-> sc, r |-> FALSE]
    ELSE [sc |-> [sc EXCEPT !.current = @ + 1], r |-> TRUE]

\* error(self.line, message)
Scanner_error(sc, message) ==
    [sc EXCEPT !.diags = error(@, sc.line, message)]

\* the conditions of the loops `while <condition on peek()> { advance(); }`:
\* of number(), of identifier(), of string() and of the line comment
Scanner_continues(loop, c) ==
    CASE loop = "number" -> char_is_digit(c)
      [] loop = "identifier" -> char_is_alphanumeric(c) \/ c = "_"
      [] loop = "string" -> c # "\""
      [] loop = "comment" -> c # "\n"

RECURSIVE Scanner_advance_while(_, _)
\* while <condition on peek()> { advance(); }.  The loops of string() and
\* of the line comment go on while !is_at_end() as well, and string()
\* counts the lines.
Scanner_advance_while(sc, loop) ==
    LET c == Scanner_peek(sc)
        a == Scanner_advance(
                 IF loop = "string" /\ c.c = "\n"
                 THEN [sc EXCEPT !.line = @ + 1] ELSE sc)
    IN  IF c.kind = "panic" THEN [sc |-> sc, r |-> c]
        ELSE IF \/ ~Scanner_continues(loop, c.c)
                \/ (loop \in {"string", "comment"} /\ Scanner_is_at_end(sc))
        THEN [sc |-> sc, r |-> Ok]
        ELSE IF a.r.kind = "panic" THEN a
        ELSE Scanner_advance_while(a.sc, loop)

\* Scanner::string
Scanner_string(sc) ==
    LET w == Scanner_advance_while(sc, "string")
        a == Scanner_advance(w.sc)
        value == str_slice(a.sc.source, a.sc.start + 1, a.sc.current - 1)
    IN  IF w.r.kind = "panic" THEN w
        ELSE IF Scanner_is_at_end(w.sc)
        THEN [sc |-> Scanner_error(w.sc, "Unterminated string"), r |-> Ok]
        ELSE IF a.r.kind = "panic" THEN a
        ELSE IF value.kind = "panic" THEN [sc |-> a.sc, r |-> value]
        ELSE [sc |-> Scanner_make_token(a.sc, "STRING", concat(value.chars)),
              r |-> Ok]

\* Scanner::number
Scanner_number(sc) ==
    LET w == Scanner_advance_while(sc, "number")
        c == Scanner_peek(w.sc)
        n == IF c.c = "." THEN Scanner_peak_next(w.sc) ELSE c
        f == IF c.c = "." /\ char_is_digit(n.c)
             THEN LET with_a(a) ==
                      IF a.r.kind = "panic" THEN a
                      ELSE Scanner_advance_while(a.sc, "number")
                  IN  with_a(Scanner_advance(w.sc))
             ELSE [sc |-> w.sc, r |-> Ok]
        text == str_slice(f.sc.source, f.sc.start, f.sc.current)
        value == f64_parse_to_string(text.chars)
    IN  IF w.r.kind = "panic" THEN w
        ELSE IF c.kind = "panic" THEN [sc |-> w.sc, r |-> c]
        ELSE IF n.kind = "panic" THEN [sc |-> w.sc, r |-> n]
        ELSE IF f.r.kind = "panic" THEN f
        ELSE IF text.kind = "panic" THEN [sc |-> f.sc, r |-> text]
        ELSE IF is_none(value) THEN [sc |-> f.sc, r |-> Panic("unwrap on Err")]
        ELSE [sc |-> Scanner_make_token(f.sc, "NUMBER", unwrap(value)),
              r |-> Ok]

\* Scanner::identifier
Scanner_identifier(sc) ==
    LET w == Scanner_advance_while(sc, "identifier")
        str == str_slice(w.sc.source, w.sc.start, w.sc.current)
    IN  IF w.r.kind = "panic" THEN w
        ELSE IF str.kind = "panic" THEN [sc |-> w.sc, r |-> str]
        ELSE [sc |-> Scanner_make_token(w.sc, match_keyword(concat(str.chars)),
                                        concat(str.chars)),
              r |-> Ok]

RECURSIVE Scanner_block_comment_loop(_)
\* while !(peek() == '*' && peak_next() == '/') && !is_at_end() {
\*     if peek() == '\n' { line += 1 }  advance(); }
Scanner_block_comment_loop(sc) ==
    LET c == Scanner_peek(sc)
        n == IF c.c = "*" THEN Scanner_peak_next(sc) ELSE c
        a == Scanner_advance(
                 IF c.c = "\n" THEN [sc EXCEPT !.line = @ + 1] ELSE sc)
    IN  IF c.kind = "panic" THEN [sc |-> sc, r |-> c]
        ELSE IF n.kind = "panic" THEN [sc |-> sc, r |-> n]
        ELSE IF (c.c = "*" /\ n.c = "/") \/ Scanner_is_at_end(sc)
        THEN [sc |-> sc, r |-> Ok]
        ELSE IF a.r.kind = "panic" THEN a
        ELSE Scanner_block_comment_loop(a.sc)

\* the arm '/' of scan_token, after match_char('*') returned true
Scanner_block_comment(sc) ==
    LET w == Scanner_block_comment_loop(sc)
        unterminated(s) ==
            [sc |-> Scanner_error(s, "Unterminated block comment"), r |-> Ok]
        star == Scanner_advance(w.sc)
        slash == Scanner_advance(star.sc)
    IN  IF w.r.kind = "panic" THEN w
        ELSE IF Scanner_is_at_end(w.sc) THEN unterminated(w.sc)
        ELSE IF star.r.kind = "panic" THEN star
        ELSE IF Scanner_is_at_end(star.sc) THEN unterminated(star.sc)
        ELSE IF slash.r.kind = "panic" THEN slash
        ELSE [sc |-> slash.sc, r |-> Ok]

\* the arm '/' of scan_token
Scanner_slash(sc) ==
    LET star == Scanner_match_char(sc, "*")
        slash == Scanner_match_char(star.sc, "/")
    IN  IF star.r THEN Scanner_block_comment(star.sc)
        ELSE IF slash.r
        THEN Scanner_advance_while(slash.sc, "comment")
        ELSE [sc |-> Scanner_make_token(slash.sc, "SLASH", ""), r |-> Ok]

\* the arms '!', '=', '<' and '>' of scan_token
Scanner_one_or_two(sc, one, two, lexeme) ==
    LET with_m(m) ==
        [sc |-> IF m.r THEN Scanner_make_token(m.sc, two, lexeme \o "=")
                ELSE Scanner_make_token(m.sc, one, lexeme),
         r |-> Ok]
    IN  with_m(Scanner_match_char(sc, "="))

\* the arms of scan_token that make the token of one char
SingleCharTokens ==
    [c \in {"(", ")", "{", "}", ",", ".", "-", "+", ";", "*"} |->
        CASE c = "(" -> "LEFT_PAREN" [] c = ")" -> "RIGHT_PAREN"
          [] c = "{" -> "LEFT_BRACE" [] c = "}" -> "RIGHT_BRACE"
          [] c = "," -> "COMMA" [] c = "." -> "DOT" [] c = "-" -> "MINUS"
          [] c = "+" -> "PLUS" [] c = ";" -> "SEMICOLON" [] c = "*" -> "STAR"]

\* Scanner::scan_token
Scanner_scan_token(sc) ==
    LET a == Scanner_advance(sc)
        c == a.r.c
    IN  IF a.r.kind = "panic" THEN a
        ELSE CASE c \in DOMAIN SingleCharTokens ->
                    [sc |-> Scanner_make_token(a.sc, SingleCharTokens[c], c),
                     r |-> Ok]
               [] c = "!" -> Scanner_one_or_two(a.sc, "BANG", "BANG_EQUAL", c)
               [] c = "=" -> Scanner_one_or_two(a.sc, "EQUAL", "EQUAL_EQUAL", c)
               [] c = "<" -> Scanner_one_or_two(a.sc, "LESS", "LESS_EQUAL", c)
               [] c = ">" ->
                    Scanner_one_or_two(a.sc, "GREATER", "GREATER_EQUAL", c)
               [] c = "/" -> Scanner_slash(a.sc)
               [] c \in {" ", "\r", "\t"} -> [sc |-> a.sc, r |-> Ok]
               [] c = "\n" -> [sc |-> [a.sc EXCEPT !.line = @ + 1], r |-> Ok]
               [] c = "\"" -> Scanner_string(a.sc)
               [] char_is_digit(c) -> Scanner_number(a.sc)
               [] c = "_" \/ c \in AsciiLetters -> Scanner_identifier(a.sc)
               [] OTHER ->
                    [sc |-> Scanner_error(a.sc, "Unexpected character."),
                     r |-> Ok]

(***************************************************************************)
(* The parser (src/src/parser.rs).  P holds the Parser's `tokens` and      *)
(* `current`, and `diags`, what crate::error has printed.  A function that *)
(* returns Result<T, ParseError> returns the changed P next to r, which is *)
(* POk(v) or PErr(token, message).                                         *)
(***************************************************************************)
POk(v) == [kind |-> "ok", v |-> v]
\* ParseError { token, message }
PErr(token, message) ==
    [kind |-> "err", err |-> [token |-> token, message |-> message]]

\* Parser::new
Parser_new(tokens) == [tokens |-> tokens, current |-> 0, diags |-> << >>]

\* Parser::peek and Parser::previous: tokens[current] and tokens[current - 1]
Parser_peek(P) == P.tokens[P.current + 1]
Parser_previous(P) == P.tokens[P.current]

Parser_is_at_end(P) == Parser_peek(P).token_type = "EOF"

Parser_check(P, token_type) ==
    ~Parser_is_at_end(P) /\ Parser_peek(P).token_type = token_type

\* Parser::advance: the token it returns is Parser_previous of the result
Parser_advance(P) ==
    IF ~Parser_is_at_end(P) THEN [P EXCEPT !.current = @ + 1] ELSE P

\* Parser::match_token
Parser_match_token(P, token_types) ==
    IF \E token_type \in token_types : Parser_check(P, token_type)
    THEN [P |-> Parser_advance(P), r |-> TRUE]
    ELSE [P |-> P, r |-> FALSE]

\* Parser::consume
Parser_consume(P, token_type, message) ==
    IF Parser_check(P, token_type)
    THEN [P |-> Parser_advance(P), r |-> POk(Parser_peek(P))]
    ELSE [P |-> P, r |-> PErr(Parser_peek(P), message)]

\* crate::error, printed by the parser
Parser_error(P, token, message) ==
    [P EXCEPT !.diags = error(@, token.line, message)]

\* the token kinds at which Parser::synchronize stops
StatementStarts ==
    {"CLASS", "FUN", "VAR", "FOR", "IF", "WHILE", "PRINT", "RETURN"}

RECURSIVE Parser_synchronize_loop(_)
\* the while loop of Parser::synchronize
Parser_synchronize_loop(P) ==
    IF Parser_is_at_end(P) THEN P
    ELSE IF Parser_previous(P).token_type = "SEMICOLON" THEN P
    ELSE IF Parser_peek(P).token_type \in StatementStarts THEN P
    ELSE Parser_synchronize_loop([P EXCEPT !.current = @ + 1])

\* Parser::synchronize
Parser_synchronize(P) == Parser_synchronize_loop(Parser_advance(P))

\* the binary_operators of Parser::expression
BinaryOperators ==
    {"BANG_EQUAL", "EQUAL_EQUAL", "GREATER", "GREATER_EQUAL", "LESS",
     "LESS_EQUAL", "MINUS", "PLUS", "SLASH", "STAR", "QUESTION", "COLON",
     "COMMA"}

RECURSIVE Parser_skip_loop(_)
\* while !is_at_end() && !match_token(binary_operators) { advance(); }
Parser_skip_loop(P) ==
    IF Parser_is_at_end(P) THEN P
    ELSE IF Parser_match_token(P, BinaryOperators).r THEN Parser_advance(P)
    ELSE Parser_skip_loop(Parser_advance(P))

\* the operators of each rule of the binary and logical expressions, in
\* the order of the calls: or, and, equality, comparison, term, factor
RuleOperators(rule) ==
    CASE rule = "or" -> {"OR"}
      [] rule = "and" -> {"AND"}
      [] rule = "equality" -> {"BANG_EQUAL", "EQUAL_EQUAL"}
      [] rule = "comparison" ->
           {"GREATER", "GREATER_EQUAL", "LESS", "LESS_EQUAL"}
      [] rule = "term" -> {"PLUS", "MINUS"}
      [] rule = "factor" -> {"SLASH", "STAR"}

RECURSIVE Parser_expression(_), Parser_assignment(_), Parser_ternary(_)
RECURSIVE Parser_rule(_, _), Parser_rule_loop(_, _, _), Parser_operand(_, _)
RECURSIVE Parser_unary(_), Parser_call(_), Parser_call_loop(_, _)
RECURSIVE Parser_finish_call(_, _), Parser_arguments(_, _), Parser_primary(_)

\* Parser::expression
Parser_expression(P) ==
    LET with_a(a) ==
        IF a.r.kind = "ok" THEN a
        ELSE [P |-> Parser_error(a.P, a.r.err.token, a.r.err.message),
              r |-> a.r]
    IN  with_a(Parser_assignment(
            IF Parser_match_token(P, BinaryOperators).r
            THEN Parser_skip_loop(
                     Parser_error(Parser_advance(P), Parser_peek(P),
                         "Expression cannot start with " \o
                         Parser_peek(P).lexeme))
            ELSE P))

\* Parser::assignment
Parser_assignment(P) ==
    LET with_e(e) ==
        IF e.r.kind = "err" THEN e
        ELSE IF ~Parser_match_token(e.P, {"EQUAL"}).r THEN e
        ELSE LET with_v(v) ==
                 IF v.r.kind = "err" THEN v
                 ELSE CASE e.r.v.k = "Variable" ->
                             [P |-> v.P,
                              r |-> POk(Expr_Assign(e.r.v.name, v.r.v))]
                        [] e.r.v.k = "Get" ->
                             [P |-> v.P,
                              r |-> POk(Expr_Set(e.r.v.expr, e.r.v.name,
                                                 v.r.v))]
                        [] OTHER ->
                             [P |-> Parser_error(v.P, Parser_peek(e.P),
                                        "Invalid assignment target."),
                              r |-> PErr(Parser_peek(e.P),
                                         "Invalid assignment target.")]
             IN  with_v(Parser_assignment(Parser_advance(e.P)))
    IN  with_e(Parser_ternary(P))

\* Parser::ternary
Parser_ternary(P) ==
    LET with_e(e) ==
        IF e.r.kind = "err" THEN e
        ELSE IF Parser_peek(e.P).token_type # "QUESTION" THEN e
        ELSE LET with_t(t) ==
                 IF t.r.kind = "err" THEN t
                 ELSE LET with_c(c) ==
                          IF c.r.kind = "err" THEN c
                          ELSE LET with_f(f) ==
                                   IF f.r.kind = "err" THEN f
                                   ELSE [P |-> f.P,
                                         r |-> POk(Expr_Ternary(
                                                  e.r.v, t.r.v, f.r.v))]
                               IN  with_f(Parser_expression(c.P))
                      IN  with_c(Parser_consume(t.P, "COLON",
                              "Expect ':' after then branch of ternary"))
             IN  with_t(Parser_expression(Parser_advance(e.P)))
    IN  with_e(Parser_rule(P, "or"))

\* the operand of a rule: the rule it calls
Parser_operand(P, rule) ==
    CASE rule = "or" -> Parser_rule(P, "and")
      [] rule = "and" -> Parser_rule(P, "equality")
      [] rule = "equality" -> Parser_rule(P, "comparison")
      [] rule = "comparison" -> Parser_rule(P, "term")
      [] rule = "term" -> Parser_rule(P, "factor")
      [] rule = "factor" -> Parser_unary(P)

\* the while loop of Parser::or, and, equality, comparison, term and
\* factor: let operator = self.advance(); let right = <operand>?;
Parser_rule_loop(P, rule, expr) ==
    IF Parser_peek(P).token_type \notin RuleOperators(rule)
    THEN [P |-> P, r |-> POk(expr)]
    ELSE LET with_r(right) ==
             IF right.r.kind = "err" THEN right
             ELSE Parser_rule_loop(right.P, rule,
                      IF rule \in {"or", "and"}
                      THEN Expr_Logical(expr, Parser_peek(P), right.r.v)
                      ELSE Expr_Binary(expr, Parser_peek(P), right.r.v))
         IN  with_r(Parser_operand(Parser_advance(P), rule))

\* Parser::or, and, equality, comparison, term and factor
Parser_rule(P, rule) ==
    LET with_e(e) ==
        IF e.r.kind = "err" THEN e ELSE Parser_rule_loop(e.P, rule, e.r.v)
    IN  with_e(Parser_operand(P, rule))

Parser_or(P) == Parser_rule(P, "or")
Parser_and(P) == Parser_rule(P, "and")
Parser_equality(P) == Parser_rule(P, "equality")
Parser_comparison(P) == Parser_rule(P, "comparison")
Parser_term(P) == Parser_rule(P, "term")
Parser_factor(P) == Parser_rule(P, "factor")

\* Parser::unary
Parser_unary(P) ==
    IF Parser_peek(P).token_type \in {"BANG", "MINUS"}
    THEN LET with_r(right) ==
             IF right.r.kind = "err" THEN right
             ELSE [P |-> right.P,
                   r |-> POk(Expr_Unary(Parser_peek(P), right.r.v))]
         IN  with_r(Parser_unary(Parser_advance(P)))
    ELSE Parser_call(P)

\* the loop of Parser::call
Parser_call_loop(P, expr) ==
    IF Parser_check(P, "LEFT_PAREN")
    THEN LET with_c(c) ==
             IF c.r.kind = "err" THEN c ELSE Parser_call_loop(c.P, c.r.v)
         IN  with_c(Parser_finish_call(Parser_advance(P), expr))
    ELSE IF Parser_check(P, "DOT")
    THEN LET with_n(name) ==
             IF name.r.kind = "err" THEN name
             ELSE Parser_call_loop(name.P, Expr_Get(expr, name.r.v))
         IN  with_n(Parser_consume(Parser_advance(P), "IDENTIFIER",
                        "Expect property name after ."))
    ELSE [P |-> P, r |-> POk(expr)]

\* Parser::call
Parser_call(P) ==
    LET with_e(e) ==
        IF e.r.kind = "err" THEN e ELSE Parser_call_loop(e.P, e.r.v)
    IN  with_e(Parser_primary(P))

\* the loop of Parser::finish_call
Parser_arguments(P, arguments) ==
    IF Len(arguments) >= 255
    THEN [P |-> Parser_error(P, Parser_peek(P),
                    "Can't have more than 255 arguments."),
          r |-> PErr(Parser_peek(P), "Can't have more than 255 arguments.")]
    ELSE LET with_e(e) ==
             IF e.r.kind = "err" THEN e
             ELSE IF Parser_match_token(e.P, {"COMMA"}).r
             THEN Parser_arguments(Parser_advance(e.P),
                                   Append(arguments, e.r.v))
             ELSE [P |-> e.P, r |-> POk(Append(arguments, e.r.v))]
         IN  with_e(Parser_expression(P))

\* Parser::finish_call
Parser_finish_call(P, callee) ==
    LET with_a(a) ==
        IF a.r.kind = "err" THEN a
        ELSE LET with_p(paren) ==
                 IF paren.r.kind = "err" THEN paren
                 ELSE [P |-> paren.P,
                       r |-> POk(Expr_Call(callee, paren.r.v, a.r.v))]
             IN  with_p(Parser_consume(a.P, "RIGHT_PAREN",
                            "Expect ')' after arguments."))
    IN  with_a(IF Parser_check(P, "RIGHT_PAREN")
               THEN [P |-> P, r |-> POk(<< >>)]
               ELSE Parser_arguments(P, << >>))

\* Parser::primary
Parser_primary(P) ==
    IF Parser_match_token(P, {"FALSE", "TRUE", "NIL", "NUMBER", "STRING"}).r
    THEN [P |-> Parser_advance(P), r |-> POk(Expr_Literal(Parser_peek(P)))]
    ELSE IF Parser_match_token(P, {"IDENTIFIER"}).r
    THEN [P |-> Parser_advance(P), r |-> POk(Expr_Variable(Parser_peek(P)))]
    ELSE IF Parser_match_token(P, {"LEFT_PAREN"}).r
    THEN LET with_e(e) ==
             IF e.r.kind = "err" THEN e
             ELSE LET with_c(c) ==
                      IF c.r.kind = "err" THEN c
                      ELSE [P |-> c.P, r |-> POk(Expr_Grouping(e.r.v))]
                  IN  with_c(Parser_consume(e.P, "RIGHT_PAREN",
                                 "Expect ')' after expression."))
         IN  with_e(Parser_expression(Parser_advance(P)))
    ELSE [P |-> P, r |-> PErr(Parser_peek(P), "Expect expression.")]

RECURSIVE Parser_declaration(_), Parser_statement(_), Parser_block(_)
RECURSIVE Parser_block_loop(_, _), Parser_func_declaration(_, _)
RECURSIVE Parser_methods(_, _), Parser_class_declaration(_)
RECURSIVE Parser_for_statement(_), Parser_if_statement(_)
RECURSIVE Parser_while_statement(_)

\* Parser::var_declaration
Parser_var_declaration(P) ==
    LET with_n(name) ==
        IF name.r.kind = "err" THEN name
        ELSE LET with_i(i) ==
                 IF i.r.kind = "err" THEN i
                 ELSE LET with_s(s) ==
                          IF s.r.kind = "err" THEN s
                          ELSE [P |-> s.P,
                                r |-> POk(Stmt_Var(name.r.v, i.r.v))]
                      IN  with_s(Parser_consume(i.P, "SEMICOLON",
                                     "Expect ';' after value"))
             some(e) ==
                 IF e.r.kind = "err" THEN e
                 ELSE [P |-> e.P, r |-> POk(Some(e.r.v))]
         IN  with_i(IF Parser_match_token(name.P, {"EQUAL"}).r
                    THEN some(Parser_expression(Parser_advance(name.P)))
                    ELSE [P |-> name.P, r |-> POk(None)])
    IN  with_n(Parser_consume(P, "IDENTIFIER", "Expect variable name."))

\* Parser::print_statement
Parser_print_statement(P) ==
    LET with_v(value) ==
        IF value.r.kind = "err" THEN value
        ELSE LET with_s(s) ==
                 IF s.r.kind = "err" THEN s
                 ELSE [P |-> s.P, r |-> POk(Stmt_Print(value.r.v))]
             IN  with_s(Parser_consume(value.P, "SEMICOLON",
                            "Expect ';' after value."))
    IN  with_v(Parser_expression(P))

\* Parser::return_statement
Parser_return_statement(P) ==
    LET with_v(value) ==
        IF value.r.kind = "err" THEN value
        ELSE LET with_s(s) ==
                 IF s.r.kind = "err" THEN s
                 ELSE [P |-> s.P,
                       r |-> POk(Stmt_Return(Parser_previous(P), value.r.v))]
             IN  with_s(Parser_consume(value.P, "SEMICOLON",
                            "Expect ';' after return value."))
        some(e) ==
            IF e.r.kind = "err" THEN e ELSE [P |-> e.P, r |-> POk(Some(e.r.v))]
    IN  with_v(IF ~Parser_check(P, "SEMICOLON")
               THEN some(Parser_expression(P))
               ELSE [P |-> P, r |-> POk(None)])

\* Parser::expression_statement
Parser_expression_statement(P) ==
    LET with_v(value) ==
        IF value.r.kind = "err" THEN value
        ELSE LET with_s(s) ==
                 IF s.r.kind = "err" THEN s
                 ELSE [P |-> s.P,
                       r |-> POk(IF value.r.v.k = "Assign"
                                 THEN Stmt_Assign(value.r.v.name,
                                                  value.r.v.value)
                                 ELSE Stmt_Expr(value.r.v))]
             IN  with_s(Parser_consume(value.P, "SEMICOLON",
                            "Expect ';' after value."))
    IN  with_v(Parser_expression(P))

\* the while loop of Parser::block
Parser_block_loop(P, stmts) ==
    IF ~Parser_check(P, "RIGHT_BRACE") /\ ~Parser_is_at_end(P)
    THEN LET with_d(d) ==
             IF d.r.kind = "err" THEN d
             ELSE Parser_block_loop(d.P, Append(stmts, d.r.v))
         IN  with_d(Parser_declaration(P))
    ELSE LET with_c(c) ==
             IF c.r.kind = "err" THEN c ELSE [P |-> c.P, r |-> POk(stmts)]
         IN  with_c(Parser_consume(P, "RIGHT_BRACE",
                        "Expect '}' after block."))

\* Parser::block
Parser_block(P) == Parser_block_loop(P, << >>)

\* Parser::statement
Parser_statement(P) ==
    IF Parser_match_token(P, {"PRINT"}).r
    THEN Parser_print_statement(Parser_advance(P))
    ELSE IF Parser_match_token(P, {"RETURN"}).r
    THEN Parser_return_statement(Parser_advance(P))
    ELSE IF Parser_match_token(P, {"LEFT_BRACE"}).r
    THEN LET with_b(b) ==
             IF b.r.kind = "err" THEN b
             ELSE [P |-> b.P, r |-> POk(Stmt_Block(b.r.v))]
         IN  with_b(Parser_block(Parser_advance(P)))
    ELSE IF Parser_match_token(P, {"BREAK"}).r
    THEN [P |-> Parser_advance(P), r |-> POk(Stmt_Break)]
    ELSE Parser_expression_statement(P)

\* Parser::if_statement
Parser_if_statement(P) ==
    LET with_l(l) ==
        IF l.r.kind = "err" THEN l
        ELSE LET with_c(condition) ==
                 IF condition.r.kind = "err" THEN condition
                 ELSE LET with_r(rp) ==
                          IF rp.r.kind = "err" THEN rp
                          ELSE LET with_t(t) ==
                                   IF t.r.kind = "err" THEN t
                                   ELSE IF ~Parser_match_token(t.P, {"ELSE"}).r
                                   THEN [P |-> t.P,
                                         r |-> POk(Stmt_If(condition.r.v,
                                                       t.r.v, None))]
                                   ELSE LET with_e(e) ==
                                            IF e.r.kind = "err" THEN e
                                            ELSE [P |-> e.P,
                                                  r |-> POk(Stmt_If(
                                                      condition.r.v, t.r.v,
                                                      Some(e.r.v)))]
                                        IN  with_e(Parser_statement(
                                                Parser_advance(t.P)))
                               IN  with_t(Parser_statement(rp.P))
                      IN  with_r(Parser_consume(condition.P, "RIGHT_PAREN",
                              "Expect ')' after if condition."))
             IN  with_c(Parser_expression(l.P))
    IN  with_l(Parser_consume(P, "LEFT_PAREN", "Expect '(' after 'if'."))

\* Parser::while_statement
Parser_while_statement(P) ==
    LET with_l(l) ==
        IF l.r.kind = "err" THEN l
        ELSE LET with_c(condition) ==
                 IF condition.r.kind = "err" THEN condition
                 ELSE LET with_r(rp) ==
                          IF rp.r.kind = "err" THEN rp
                          ELSE LET with_b(body) ==
                                   IF body.r.kind = "err" THEN body
                                   ELSE [P |-> body.P,
                                         r |-> POk(Stmt_While(
                                                  condition.r.v, body.r.v))]
                               IN  with_b(Parser_statement(rp.P))
                      IN  with_r(Parser_consume(condition.P, "RIGHT_PAREN",
                              "Expect ')' after condition."))
             IN  with_c(Parser_expression(l.P))
    IN  with_l(Parser_consume(P, "LEFT_PAREN", "Expect '(' after 'while'."))

\* the desugaring at the end of Parser::for_statement
Parser_for_desugar(initializer, condition, increment, body) ==
    LET with_increment ==
            IF is_some(increment)
            THEN Stmt_Block(<< body,
                     IF unwrap(increment).k = "Assign"
                     THEN Stmt_Assign(unwrap(increment).name,
                                      unwrap(increment))
                     ELSE Stmt_Expr(unwrap(increment)) >>)
            ELSE body
        loop == Stmt_While(
                    IF is_none(condition)
                    THEN Expr_Literal(Token_new("TRUE", "true", 0))
                    ELSE unwrap(condition),
                    with_increment)
    IN  IF is_some(initializer) THEN Stmt_Block(<< unwrap(initializer), loop >>)
        ELSE loop

\* Parser::for_statement
Parser_for_statement(P) ==
    LET some(e) ==
            IF e.r.kind = "err" THEN e ELSE [P |-> e.P, r |-> POk(Some(e.r.v))]
        with_l(l) ==
        IF l.r.kind = "err" THEN l
        ELSE LET with_i(i) ==
                 IF i.r.kind = "err" THEN i
                 ELSE LET with_c(c) ==
                     IF c.r.kind = "err" THEN c
                     ELSE LET with_s(s) ==
                         IF s.r.kind = "err" THEN s
                         ELSE LET with_n(n) ==
                             IF n.r.kind = "err" THEN n
                             ELSE LET with_r(rp) ==
                                 IF rp.r.kind = "err" THEN rp
                                 ELSE LET with_b(body) ==
                                     IF body.r.kind = "err" THEN body
                                     ELSE [P |-> body.P,
                                           r |-> POk(Parser_for_desugar(
                                               i.r.v, c.r.v, n.r.v,
                                               body.r.v))]
                                      IN  with_b(Parser_statement(rp.P))
                                  IN  with_r(Parser_consume(n.P,
                                          "RIGHT_PAREN",
                                          "Expect ')' after for clauses."))
                              IN  with_n(IF ~Parser_check(s.P, "RIGHT_PAREN")
                                         THEN some(Parser_expression(s.P))
                                         ELSE [P |-> s.P, r |-> POk(None)])
                          IN  with_s(Parser_consume(c.P, "SEMICOLON",
                                  "Expect ';' after loop condition."))
                      IN  with_c(IF ~Parser_check(i.P, "SEMICOLON")
                                 THEN some(Parser_expression(i.P))
                                 ELSE [P |-> i.P, r |-> POk(None)])
             IN  with_i(IF Parser_match_token(l.P, {"SEMICOLON"}).r
                        THEN [P |-> Parser_advance(l.P), r |-> POk(None)]
                        ELSE IF Parser_match_token(l.P, {"VAR"}).r
                        THEN some(Parser_var_declaration(Parser_advance(l.P)))
                        ELSE some(Parser_expression_statement(l.P)))
    IN  with_l(Parser_consume(P, "LEFT_PAREN", "Expect '(' after 'for'."))

RECURSIVE Parser_parameters(_, _)
\* the loop of Parser::func_declaration
Parser_parameters(P, parameters) ==
    IF Len(parameters) >= 255
    THEN [P |-> P,
          r |-> PErr(Parser_peek(P), "Can't have more than 255 parameters.")]
    ELSE LET with_n(name) ==
             IF name.r.kind = "err" THEN name
             ELSE IF Parser_match_token(name.P, {"COMMA"}).r
             THEN Parser_parameters(Parser_advance(name.P),
                                    Append(parameters, name.r.v))
             ELSE [P |-> name.P, r |-> POk(Append(parameters, name.r.v))]
         IN  with_n(Parser_consume(P, "IDENTIFIER",
                        "Expect parameter name."))

\* Parser::func_declaration
Parser_func_declaration(P, kind) ==
    LET with_n(name) ==
        IF name.r.kind = "err" THEN name
        ELSE LET with_l(l) ==
            IF l.r.kind = "err" THEN l
            ELSE LET with_p(p) ==
                IF p.r.kind = "err" THEN p
                ELSE LET with_r(rp) ==
                    IF rp.r.kind = "err" THEN rp
                    ELSE LET with_o(o) ==
                        IF o.r.kind = "err" THEN o
                        ELSE LET with_b(body) ==
                            IF body.r.kind = "err" THEN body
                            ELSE [P |-> body.P,
                                  r |-> POk(Stmt_Function(name.r.v, p.r.v,
                                                          body.r.v))]
                             IN  with_b(Parser_block(o.P))
                         IN  with_o(Parser_consume(rp.P, "LEFT_BRACE",
                                 "Expect '{' before " \o kind \o " body."))
                     IN  with_r(Parser_consume(p.P, "RIGHT_PAREN",
                             "Expect ')' after parameters."))
                 IN  with_p(IF ~Parser_check(l.P, "RIGHT_PAREN")
                            THEN Parser_parameters(l.P, << >>)
                            ELSE [P |-> l.P, r |-> POk(<< >>)])
             IN  with_l(Parser_consume(name.P, "LEFT_PAREN",
                     "Expect '(' after " \o kind \o " name."))
    IN  with_n(Parser_consume(P, "IDENTIFIER",
                   "Expect " \o kind \o " name."))

\* the while loop of Parser::class_declaration
Parser_methods(P, methods) ==
    IF ~Parser_check(P, "RIGHT_BRACE") /\ ~Parser_is_at_end(P)
    THEN LET with_m(m) ==
             IF m.r.kind = "err" THEN m
             ELSE Parser_methods(m.P, Append(methods, m.r.v))
         IN  with_m(Parser_func_declaration(P, "method"))
    ELSE [P |-> P, r |-> POk(methods)]

\* Parser::class_declaration
Parser_class_declaration(P) ==
    LET with_n(name) ==
        IF name.r.kind = "err" THEN name
        ELSE LET with_l(l) ==
            IF l.r.kind = "err" THEN l
            ELSE LET with_m(m) ==
                IF m.r.kind = "err" THEN m
                ELSE LET with_r(rb) ==
                    IF rb.r.kind = "err" THEN rb
                    ELSE [P |-> rb.P, r |-> POk(Stmt_Class(name.r.v, m.r.v))]
                     IN  with_r(Parser_consume(m.P, "RIGHT_BRACE",
                             "Expect '}' after class body."))
                 IN  with_m(Parser_methods(l.P, << >>))
             IN  with_l(Parser_consume(name.P, "LEFT_BRACE",
                     "Expect '{' before class body."))
    IN  with_n(Parser_consume(P, "IDENTIFIER", "Expect class name."))

\* Parser::declaration
Parser_declaration(P) ==
    IF Parser_match_token(P, {"FUN"}).r
    THEN Parser_func_declaration(Parser_advance(P), "function")
    ELSE IF Parser_match_token(P, {"VAR"}).r
    THEN Parser_var_declaration(Parser_advance(P))
    ELSE IF Parser_match_token(P, {"FOR"}).r
    THEN Parser_for_statement(Parser_advance(P))
    ELSE IF Parser_match_token(P, {"IF"}).r
    THEN Parser_if_statement(Parser_advance(P))
    ELSE IF Parser_match_token(P, {"WHILE"}).r
    THEN Parser_while_statement(Parser_advance(P))
    ELSE IF Parser_match_token(P, {"CLASS"}).r
    THEN Parser_class_declaration(Parser_advance(P))
    ELSE Parser_statement(P)

(***************************************************************************)
(* The programs the pipeline is run on: syntax trees as parser.rs builds    *)
(* them from one line of source text.                                       *)
(***************************************************************************)
\* a token of line 1
tk(token_type, lexeme) == Token_new(token_type, lexeme, 1)
ident(name) == tk("IDENTIFIER", name)

\* Parser::primary
variable(name) == Expr_Variable(ident(name))
number(n) == Expr_Literal(tk("NUMBER", f64_to_string(n)))
string(s) == Expr_Literal(tk("STRING", s))
nil == Expr_Literal(tk("NIL", "nil"))
true == Expr_Literal(tk("TRUE", "true"))
false == Expr_Literal(tk("FALSE", "false"))

\* Parser::finish_call: `callee(arguments)`
call(callee, arguments) == Expr_Call(callee, tk("RIGHT_PAREN", ")"), arguments)
\* Parser::term: `left + right` and `left - right`
plus(left, right) == Expr_Binary(left, tk("PLUS", "+"), right)
minus(left, right) == Expr_Binary(left, tk("MINUS", "-"), right)
\* Parser::or and Parser::and
logical(left, op, right) ==
    Expr_Logical(left,
                 IF op = "or" THEN tk("OR", "or") ELSE tk("AND", "and"), right)

\* Parser::var_declaration: `var name = initializer;`
var(name, initializer) == Stmt_Var(ident(name), Some(initializer))
\* Parser::expression_statement on an assignment: `name = value;`
assign(name, value) == Stmt_Assign(ident(name), value)
\* Parser::print_statement
print(expr) == Stmt_Print(expr)
\* Parser::function: `fun name(params) { body }`
function(name, params, body) ==
    Stmt_Function(ident(name), [i \in 1..Len(params) |-> ident(params[i])], body)
\* Parser::return_statement: `return;` and `return value;`
return == Stmt_Return(tk("RETURN", "return"), None)
return_value(value) == Stmt_Return(tk("RETURN", "return"), Some(value))

RECURSIVE blocks(_, _)
\* `stmts` inside n blocks: { { stmts } }
blocks(n, stmts) ==
    IF n = 0 THEN stmts ELSE << Stmt_Block(blocks(n - 1, stmts)) >>

\* the literals of each kind of value: nil, false, true, 0, a number that
\* is not 0, "" and a string that is not empty
Literals == { nil, false, true, number(0), number(MaxNum), string(""), string("s") }

RECURSIVE NestedBlock(_, _, _)
\* k blocks one inside the other, numbered 1 (outermost) to k; block i
\* declares `a` as i when i \in D; the innermost block prints `a`
NestedBlock(i, k, D) ==
    Stmt_Block((IF i \in D THEN << var("a", number(i)) >> ELSE << >>) \o
               (IF i = k THEN << print(variable("a")) >>
                ELSE << NestedBlock(i + 1, k, D) >>))

\* [var a = 0;] { .. { var a = i; .. { print a; } } }
ScopePrograms ==
    { (IF g THEN << var("a", number(0)) >> ELSE << >>) \o
      << NestedBlock(1, k, D) >> :
        g \in BOOLEAN, k \in 1..MaxNest, D \in SUBSET (1..MaxNest) }

\* scenario 3 of the specification, inside n blocks:
\* fun mk() { var n = 0; fun incr() { n = n + 1; return n; } return incr; }
\* var c = mk(); print c(); print c();
Counter(n) ==
    blocks(n,
        << function("mk", << >>,
               << var("n", number(0)),
                  function("incr", << >>,
                      << assign("n", plus(variable("n"), number(1))),
                         return_value(variable("n")) >>),
                  return_value(variable("incr")) >>),
           var("c", call(variable("mk"), << >>)),
           print(call(variable("c"), << >>)),
           print(call(variable("c"), << >>)) >>)

\* var n = 0; fun get() { return n; } n = v; print get();  inside n blocks
Getter(n, v) ==
    blocks(n,
        << var("n", number(0)),
           function("get", << >>, << return_value(variable("n")) >>),
           assign("n", number(v)),
           print(call(variable("get"), << >>)) >>)

ClosurePrograms ==
    { Counter(n) : n \in 0..(MaxNest - 1) } \cup
    { Getter(n, v) : n \in 0..(MaxNest - 1), v \in 1..MaxNum }

\* the statements a `return` is put under: sequences of at most
\* MaxNest - 1 of `{ s print "skipped"; }`, `if (true) { s }` and
\* `while (true) { s }`, outermost first
Wrappers ==
    UNION { [1..n -> {"block", "if", "while"}] : n \in 0..(MaxNest - 1) }

RECURSIVE wrap(_, _)
wrap(w, stmt) ==
    IF Len(w) = 0 THEN stmt
    ELSE LET inner == wrap(Tail(w), stmt)
         IN  CASE Head(w) = "block" ->
                    Stmt_Block(<< inner, print(string("skipped")) >>)
               [] Head(w) = "if" ->
                    Stmt_If(true, Stmt_Block(<< inner >>), None)
               [] Head(w) = "while" ->
                    Stmt_While(true, Stmt_Block(<< inner >>))

\* `return;`, `return v;` and a statement that fails: `print nil - nil;`
Leaves == { return, return_value(number(MaxNum)), print(minus(nil, nil)) }

\* fun f() { <leaf under w> print "after"; }
\* [fun g() { f(); print "g"; return 0; }]  print f(); (or g();) print "next";
ReturnProgram(w, leaf, outer) ==
    << function("f", << >>, << wrap(w, leaf), print(string("after")) >>) >> \o
    (IF outer
     THEN << function("g", << >>,
                 << Stmt_Expr(call(variable("f"), << >>)),
                    print(string("g")), return_value(number(0)) >>),
             print(call(variable("g"), << >>)) >>
     ELSE << print(call(variable("f"), << >>)) >>) \o
    << print(string("next")) >>

ReturnPrograms ==
    { ReturnProgram(w, leaf, outer) :
        w \in Wrappers, leaf \in Leaves, outer \in BOOLEAN }

\* a statement that fails under w, outside of any function
ErrorPrograms ==
    { << wrap(w, print(minus(nil, nil))), print(string("next")) >> :
        w \in Wrappers }

\* fun l() { print "L"; return a; } fun r() { print "R"; return b; }
\* print l() op r();
LogicalProgram(a, op, b) ==
    << function("l", << >>, << print(string("L")), return_value(a) >>),
       function("r", << >>, << print(string("R")), return_value(b) >>),
       print(logical(call(variable("l"), << >>), op,
                     call(variable("r"), << >>))) >>

LogicalPrograms ==
    { LogicalProgram(a, op, b) :
        a \in Literals, op \in {"or", "and"}, b \in Literals }

\* what the call programs call: functions of 0, 1 and 2 parameters, a
\* class, and two values that cannot be called
Targets ==
    { [decl |-> << function("t", << >>, << print(string("body")) >>) >>,
       expr |-> variable("t")],
      [decl |-> << function("t", << "p" >>, << print(string("body")) >>) >>,
       expr |-> variable("t")],
      [decl |-> << function("t", << "p", "q" >>, << print(string("body")) >>) >>,
       expr |-> variable("t")],
      [decl |-> << Stmt_Class(ident("t"), << >>) >>, expr |-> variable("t")],
      [decl |-> << >>, expr |-> nil],
      [decl |-> << >>, expr |-> number(MaxNum)] }

\* fun a1() { print "a1"; return 1; }  fun a2() { print "a2"; return 2; }
\* <target>  fun mk() { print "callee"; return <target>; }
\* print mk()(a1(), a2());   with the first n of the arguments
CallProgram(target, n) ==
    << function("a1", << >>, << print(string("a1")), return_value(number(1)) >>),
       function("a2", << >>, << print(string("a2")), return_value(number(2)) >>) >>
    \o target.decl \o
    << function("mk", << >>,
           << print(string("callee")), return_value(target.expr) >>),
       print(call(call(variable("mk"), << >>),
                  SubSeq(<< call(variable("a1"), << >>),
                            call(variable("a2"), << >>) >>, 1, n))) >>

CallPrograms == { CallProgram(target, n) : target \in Targets, n \in 0..2 }

\* the conditions of the if and while programs: the literals and a function
Conditions == Literals \cup { variable("f") }

\* fun f() {}  if (c) print "then"; [else print "else";]
IfProgram(c, else) ==
    << function("f", << >>, << >>),
       Stmt_If(c, print(string("then")),
               IF else THEN Some(print(string("else"))) ELSE None) >>

\* fun f() {}  var c = <c>; while (c) { print "body"; c = nil; }
WhileProgram(c) ==
    << function("f", << >>, << >>),
       var("c", c),
       Stmt_While(variable("c"),
                  Stmt_Block(<< print(string("body")), assign("c", nil) >>)) >>

\* var i = 0; while (i < n) { print i; i = i + 1; }
CountProgram(n) ==
    << var("i", number(0)),
       Stmt_While(Expr_Binary(variable("i"), tk("LESS", "<"), number(n)),
                  Stmt_Block(<< print(variable("i")),
                                assign("i", plus(variable("i"), number(1))) >>)) >>

ConditionPrograms ==
    { IfProgram(c, else) : c \in Conditions, else \in BOOLEAN } \cup
    { WhileProgram(c) : c \in Conditions } \cup
    { CountProgram(n) : n \in 0..MaxIter }

\* Parser::call and Parser::assignment: `object.name` and `object.name = value`
get(object, name) == Expr_Get(object, ident(name))
set(object, name, value) == Expr_Set(object, ident(name), value)

\* class P {} var p = P(); <q>  p.x = v; print <r>.x;   where <q> is
\* nothing (r = p), `var q = p;` or `var q = P();`
InstanceProgram(other, v) ==
    << Stmt_Class(ident("P"), << >>),
       var("p", call(variable("P"), << >>)) >> \o
    (CASE other = "same" -> << >>
       [] other = "alias" -> << var("q", variable("p")) >>
       [] other = "second" -> << var("q", call(variable("P"), << >>)) >>) \o
    << Stmt_Expr(set(variable("p"), "x", number(v))),
       print(get(variable(IF other = "same" THEN "p" ELSE "q"), "x")) >>

\* class P {} var p = P(); print p.x = v;
SetProgram(v) ==
    << Stmt_Class(ident("P"), << >>),
       var("p", call(variable("P"), << >>)),
       print(set(variable("p"), "x", number(v))) >>

InstancePrograms ==
    { InstanceProgram(other, v) :
        other \in {"same", "alias", "second"}, v \in 1..MaxNum } \cup
    { SetProgram(v) : v \in 1..MaxNum }

\* print x;  and  fun f() { print x; } f();   inside n blocks
UndefinedPrograms ==
    { blocks(n, << print(variable("x")) >>) : n \in 0..MaxNest } \cup
    { blocks(n, << function("f", << >>, << print(variable("x")) >>),
                   Stmt_Expr(call(variable("f"), << >>)) >>) : n \in 0..MaxNest }

\* Parser::equality: `left == right` and `left != right`
equality(left, op, right) ==
    Expr_Binary(left,
                IF op = "==" THEN tk("EQUAL_EQUAL", "==")
                ELSE tk("BANG_EQUAL", "!="), right)

\* the operands of the equality programs: the literals, two functions, a
\* class and two instances of it, each object held by one variable
Operands ==
    Literals \cup { variable(x) : x \in {"f", "g", "P", "p", "q"} }

\* fun f() {} fun g() {} class P {} var p = P(); var q = P();
\* print <a> == <b>;  (or !=)
EqualityProgram(a, op, b) ==
    << function("f", << >>, << >>),
       function("g", << >>, << >>),
       Stmt_Class(ident("P"), << >>),
       var("p", call(variable("P"), << >>)),
       var("q", call(variable("P"), << >>)),
       print(equality(a, op, b)) >>

EqualityPrograms ==
    { EqualityProgram(a, op, b) :
        a \in Operands, op \in {"==", "!="}, b \in Operands }

\* the token Scanner::scan_token makes of the source text `/`
slash == Scanner_scan_token(Scanner_new(<< "/" >>)).sc.tokens[1]

\* Parser::factor: `left / right`; the operator is the token the scanner made
divide(left, right) == Expr_Binary(left, slash, right)

\* print a / b;
DivisionPrograms ==
    { << print(divide(number(a), number(b))) >> :
        a \in 0..MaxNum, b \in 0..MaxNum }

\* scenario 2 of the specification:
\* var a = s; { var a = a + t; print a; } print a;
\* and, with reads = FALSE, the block's declaration not reading a:
\* var a = s; { var a = t; print a; } print a;
ShadowInitializer(reads, t) ==
    IF reads THEN plus(variable("a"), string(t)) ELSE string(t)

ShadowProgram(s, reads, t) ==
    << var("a", string(s)),
       Stmt_Block(<< var("a", ShadowInitializer(reads, t)),
                     print(variable("a")) >>),
       print(variable("a")) >>

ShadowPrograms ==
    { ShadowProgram(s, reads, t) :
        s \in {"hi", ""}, reads \in BOOLEAN, t \in {" there", "hi"} }

\* fun f(x, y) {} class P {} var p = P(); print e;
PrintProgram(e) ==
    << function("f", << "x", "y" >>, << >>),
       Stmt_Class(ident("P"), << >>),
       var("p", call(variable("P"), << >>)),
       print(e) >>

PrintPrograms ==
    { PrintProgram(e) :
        e \in Literals \cup { variable("f"), variable("P"), variable("p"),
                              plus(string("a"), number(1)) } }

\* print "before"; <`return;` or `return v;` under w>  print "next";
\* the return is in no function body
TopLevelReturnPrograms ==
    { << print(string("before")), wrap(w, leaf), print(string("next")) >> :
        w \in Wrappers, leaf \in { return, return_value(number(MaxNum)) } }

\* { var a = a; } inside n - 1 more blocks, then print "next";
\* with n = 0 the declaration is global: var a = a; print "next";
OwnInitializerPrograms ==
    { blocks(n, << var("a", variable("a")) >>) \o << print(string("next")) >> :
        n \in 0..MaxNest }

\* print a; { var a = 1; print a; var a = 2; print a; }  inside n blocks:
\* the second declaration is the resolver's error
\* "Variable with this name already declared in this scope."
DuplicatePrograms ==
    { blocks(n, << print(variable("a")),
                   Stmt_Block(<< var("a", number(1)), print(variable("a")),
                                 var("a", number(2)), print(variable("a")) >>) >>) :
        n \in 0..MaxNest }

\* programs with `uses` uses of local names at different source positions
SameNameCases ==
    { \* { var a = 1; { print a; var a = 2; print a; } }
      [program |-> << Stmt_Block(<< var("a", number(1)),
                                    Stmt_Block(<< print(variable("a")),
                                                  var("a", number(2)),
                                                  print(variable("a")) >>) >>) >>,
       uses |-> 2],
      \* { var a = 1; print a; print a; }
      [program |-> << Stmt_Block(<< var("a", number(1)), print(variable("a")),
                                    print(variable("a")) >>) >>,
       uses |-> 2],
      \* { var a = 1; print a + a; }
      [program |-> << Stmt_Block(<< var("a", number(1)),
                                    print(plus(variable("a"),
                                               variable("a"))) >>) >>,
       uses |-> 2],
      \* { var a = 1; print a;
      \*   print a; }            the second use on line 2
      [program |-> << Stmt_Block(<< var("a", number(1)), print(variable("a")),
                                    print(Expr_Variable(
                                        Token_new("IDENTIFIER", "a", 2))) >>) >>,
       uses |-> 2],
      \* { var a = 1; var b = 2; print a + b; }
      [program |-> << Stmt_Block(<< var("a", number(1)), var("b", number(2)),
                                    print(plus(variable("a"),
                                               variable("b"))) >>) >>,
       uses |-> 2] }

SameNamePrograms == { c.program : c \in SameNameCases }

\* programs with the statement `name = e;`, the stage their run ends in and
\* what it prints when the write goes to the frame the resolver selects
AssignStatementCases ==
    { \* var a = 0; a = 1; print a;
      [program |-> << var("a", number(0)), assign("a", number(1)),
                      print(variable("a")) >>,
       stage |-> "done", out |-> << "1" >>],
      \* { var a = 0; { a = 1; } print a; }
      [program |-> << Stmt_Block(<< var("a", number(0)),
                                    Stmt_Block(<< assign("a", number(1)) >>),
                                    print(variable("a")) >>) >>,
       stage |-> "done", out |-> << "1" >>],
      \* a = 1; print 2;
      [program |-> << assign("a", number(1)), print(number(2)) >>,
       stage |-> "runtime_error", out |-> << >>],
      \* var a = 0; { fun set() { a = 1; } var a = 2; set(); print a; }
      \* print a;
      [program |-> << var("a", number(0)),
                      Stmt_Block(<< function("set", << >>,
                                        << assign("a", number(1)) >>),
                                    var("a", number(2)),
                                    Stmt_Expr(call(variable("set"), << >>)),
                                    print(variable("a")) >>),
                      print(variable("a")) >>,
       stage |-> "done", out |-> << "2", "1" >>],
      \* { fun set() { a = 1; } var a = 2; set(); print a; }
      [program |-> << Stmt_Block(<< function("set", << >>,
                                        << assign("a", number(1)) >>),
                                    var("a", number(2)),
                                    Stmt_Expr(call(variable("set"), << >>)),
                                    print(variable("a")) >>) >>,
       stage |-> "runtime_error", out |-> << >>] }

AssignStatementPrograms == { c.program : c \in AssignStatementCases }

\* Parser::assignment: the expression `name = value`
assignment(name, value) == Expr_Assign(ident(name), value)

\* fun f() { print 3; return 1; }
Effect ==
    function("f", << >>, << print(number(3)), return_value(number(1)) >>)

\* programs that evaluate an assignment expression, and what they print
\* when the assignment yields the value and stores it in the live frame
AssignExpressionCases ==
    { \* var a = 0; print a = 1; print a;
      [program |-> << var("a", number(0)), print(assignment("a", number(1))),
                      print(variable("a")) >>,
       out |-> << "1", "1" >>],
      \* { var a = 0; print a = 1; print a; }
      [program |-> << Stmt_Block(<< var("a", number(0)),
                                    print(assignment("a", number(1))),
                                    print(variable("a")) >>) >>,
       out |-> << "1", "1" >>],
      \* var a = 0; { { print a = 2; } } print a;
      [program |-> << var("a", number(0)),
                      Stmt_Block(<< Stmt_Block(
                          << print(assignment("a", number(2))) >>) >>),
                      print(variable("a")) >>,
       out |-> << "2", "2" >>],
      \* fun id(n) { return n; } var a = 0; print id(a = 1); print a;
      [program |-> << function("id", << "n" >>,
                          << return_value(variable("n")) >>),
                      var("a", number(0)),
                      print(call(variable("id"),
                                 << assignment("a", number(1)) >>)),
                      print(variable("a")) >>,
       out |-> << "1", "1" >>] }

\* programs with an assignment expression whose value has an effect
EffectPrograms ==
    { \* fun f() { print 3; return 1; } var a = 0; print a = f();
      << Effect, var("a", number(0)),
         print(assignment("a", call(variable("f"), << >>))) >>,
      \* fun f() { print 3; return 1; } { var a = 0; print a = f(); }
      << Effect,
         Stmt_Block(<< var("a", number(0)),
                       print(assignment("a", call(variable("f"), << >>))) >>) >>,
      \* var a = 0; var b = 0; print a = b = 2;
      << var("a", number(0)), var("b", number(0)),
         print(assignment("a", assignment("b", number(2)))) >> }

AssignExpressionPrograms ==
    { c.program : c \in AssignExpressionCases } \cup EffectPrograms

\* { var x = 0; { .. { var y = 1; print e; } } }  with n blocks inside the
\* one of x
TargetProgram(n, e) ==
    << Stmt_Block(<< var("x", number(0)) >> \o
                  blocks(n, << var("y", number(1)), print(e) >>)) >>

TargetPrograms ==
    { TargetProgram(n, assignment("x", variable("y"))) : n \in 0..(MaxNest - 1) }

Programs ==
    ScopePrograms \cup ClosurePrograms \cup ReturnPrograms \cup ErrorPrograms
    \cup LogicalPrograms \cup CallPrograms \cup ConditionPrograms
    \cup InstancePrograms \cup UndefinedPrograms \cup EqualityPrograms
    \cup DivisionPrograms \cup ShadowPrograms
    \cup PrintPrograms \cup TopLevelReturnPrograms
    \cup OwnInitializerPrograms \cup DuplicatePrograms
    \cup SameNamePrograms \cup AssignStatementPrograms
    \cup AssignExpressionPrograms \cup TargetPrograms

(***************************************************************************)
(* The run of one program: the resolver over the whole of it, then         *)
(* interpret on one statement after the other, until one returns an error  *)
(* or panics.                                                              *)
(***************************************************************************)
VARIABLES
    program,      \* the statements the parser returned
    stage,        \* "resolve", "interpret", and how the run ended
    pc,           \* the index in `program` of the next statement
    environment,  \* Interpreter.environment, a cell of `heap`
    locals,       \* Interpreter.locals
    heap,         \* the Rc<RefCell<Environment>> cells
    out,          \* the lines written on stdout
    diags,        \* what crate::error reported
    log,          \* the calls made and their results, in order
    failure       \* the error or the panic that ended the run, if any

pipeline == << program, stage, pc, environment, locals, heap, out, diags, log,
               failure >>

\* the Interpreter between two statements of the program
Interpreter_state ==
    [environment |-> environment, locals |-> locals, heap |-> heap,
     out |-> out, log |-> log, lvl |-> 0, depth |-> 0]

\* Interpreter::new(Environment::global()) on a parsed program
InitPipeline ==
    /\ program \in Programs
    /\ stage = "resolve"
    /\ pc = 1
    /\ environment = 1
    /\ heap = << Environment_global >>
    /\ locals = Interpreter_new(environment).locals
    /\ out = << >>
    /\ diags = << >>
    /\ log = << >>
    /\ failure = None

\* Resolver::new(&mut interpreter).resolve(&program): an error, returned or
\* reported, keeps the program from being interpreted
Resolve ==
    /\ stage = "resolve"
    /\ \E res \in {Resolver_resolve(Resolver_new(locals), program)} :
           /\ locals' = res.R.locals
           /\ diags' = IF res.r.kind = "err"
                       THEN error(res.R.diags, res.r.err.token.line,
                                  res.r.err.message)
                       ELSE res.R.diags
           /\ stage' = IF Len(diags') > 0 THEN "static_error" ELSE "interpret"
           /\ failure' = IF res.r.kind = "err" THEN Some(res.r) ELSE None
    /\ UNCHANGED << program, pc, environment, heap, out, log >>

\* interpreter.interpret(program[pc])
InterpretNext ==
    /\ stage = "interpret"
    /\ \E res \in {Interpreter_interpret(program[pc], Interpreter_state)} :
           /\ environment' = res.S.environment
           /\ heap' = res.S.heap
           /\ out' = res.S.out
           /\ log' = res.S.log
           /\ failure' = IF res.r.kind = "ok" THEN None ELSE Some(res.r)
           /\ stage' = CASE res.r.kind = "err" -> "runtime_error"
                         [] res.r.kind = "panic" -> "panicked"
                         [] res.r.kind = "cutoff" -> "cutoff"
                         [] res.r.kind = "ok" ->
                              IF pc = Len(program) THEN "done" ELSE "interpret"
           /\ pc' = pc + 1
    /\ UNCHANGED << program, locals, diags >>

(***************************************************************************)
(* The run of scan_tokens on one source text.                              *)
(***************************************************************************)
VARIABLES
    source,       \* Scanner.source, a sequence of chars
    tokens,       \* Scanner.tokens
    start,        \* Scanner.start
    current,      \* Scanner.current
    line,         \* Scanner.line
    scanning      \* "scanning", "scanned" once scan_tokens has returned,
                  \* "panicked", and "idle" when no text is being scanned

scanner == << source, tokens, start, current, line, scanning >>

VARIABLES
    cursor,       \* Parser.current
    statements,   \* the `statements` of Parser::parse
    parsing,      \* "parsing", "parsed" once parse has returned, and "idle"
                  \* when no token list is being parsed
    recovery      \* the calls of synchronize: the token of the ParseError,
                  \* Parser.current before the call and after it

parser == << cursor, statements, parsing, recovery >>
vars == << pipeline, scanner, parser >>

\* the Scanner of the variables
Scanner_state ==
    [source |-> source, tokens |-> tokens, start |-> start,
     current |-> current, line |-> line, diags |-> diags]

\* the words of the keyword list of the specification, char by char
Words ==
    { << "a", "n", "d" >>, << "o", "r" >>, << "c", "l", "a", "s", "s" >>,
      << "e", "l", "s", "e" >>, << "f", "a", "l", "s", "e" >>,
      << "f", "o", "r" >>, << "f", "u", "n" >>, << "i", "f" >>,
      << "n", "i", "l" >>, << "p", "r", "i", "n", "t" >>,
      << "r", "e", "t", "u", "r", "n" >>, << "s", "u", "p", "e", "r" >>,
      << "t", "h", "i", "s" >>, << "t", "r", "u", "e" >>, << "v", "a", "r" >>,
      << "w", "h", "i", "l", "e" >>, << "b", "r", "e", "a", "k" >> }

\* identifiers that are no word of the list: a word with a char more, a
\* word in another case, a word after an underscore, and one letter
Names ==
    { w \o << c >> : w \in Words, c \in {"s", "1", "_"} } \cup
    { << "_" >> \o w : w \in Words } \cup
    { << "A", "n", "d" >>, << "B", "R", "E", "A", "K" >>, << "x" >> }

RECURSIVE NestedComment(_)
\* d block comments, one inside the other: /* b */, /* a /* b */ c */, ...
NestedComment(d) ==
    IF d = 1 THEN << "/", "*", " ", "b", " ", "*", "/" >>
    ELSE << "/", "*", " ", "a", " " >> \o NestedComment(d - 1) \o
         << " ", "c", " ", "*", "/" >>

\* the same without the last */
UnclosedComment(d) == SubSeq(NestedComment(d), 1, Len(NestedComment(d)) - 2)

\* a nest of comments alone, one followed by ` x`, and one never closed
NestedSources ==
    { NestedComment(d) \o tail :
        d \in 1..MaxNest, tail \in { << >>, << " ", "x" >> } } \cup
    { UnclosedComment(d) : d \in 1..MaxNest }

\* the chars inside the comments: a letter, the two chars of the comments,
\* the newline and a char of two bytes
CommentChars == {"a", "/", "*", "\n", E_ACUTE}

\* block comments that are terminated, `/*` body `*/`: the body, of fewer
\* than MaxSrcLen chars, holds no `*/` and no `/*`, and makes none with the
\* `*` that follows it
CommentSources ==
    { << "/", "*" >> \o body \o << "*", "/" >> :
        body \in { b \in UNION { [1..n -> CommentChars] : n \in 0..(MaxSrcLen - 1) } :
                     /\ \A i \in 1..(Len(b) - 1) :
                            /\ ~(b[i] = "*" /\ b[i + 1] = "/")
                            /\ ~(b[i] = "/" /\ b[i + 1] = "*")
                     /\ Len(b) > 0 => b[Len(b)] # "/" } }

\* the words of the source texts below, char by char
W ==
    [print |-> << "p", "r", "i", "n", "t" >>, var |-> << "v", "a", "r" >>,
     fun |-> << "f", "u", "n" >>, return |-> << "r", "e", "t", "u", "r", "n" >>,
     for |-> << "f", "o", "r" >>, while |-> << "w", "h", "i", "l", "e" >>,
     if |-> << "i", "f" >>, true |-> << "t", "r", "u", "e" >>,
     nil |-> << "n", "i", "l" >>]

RECURSIVE src(_)
\* the source text made of the pieces: a word of W or one char
src(pieces) ==
    IF Len(pieces) = 0 THEN << >>
    ELSE (IF Head(pieces) \in DOMAIN W THEN W[Head(pieces)]
          ELSE << Head(pieces) >>) \o src(Tail(pieces))

\* source texts with an expression that starts with a unary operator, and
\* the statements the grammar gives them
UnaryCases ==
    { \* print -1;
      [source |-> src(<< "print", " ", "-", "1", ";" >>),
       statements |-> << print(Expr_Unary(tk("MINUS", "-"), number(1))) >>],
      \* print !true;
      [source |-> src(<< "print", " ", "!", "true", ";" >>),
       statements |-> << print(Expr_Unary(tk("BANG", "!"), true)) >>],
      \* var a = 1; var x = -a; print x;
      [source |-> src(<< "var", " ", "a", "=", "1", ";",
                          "var", " ", "x", "=", "-", "a", ";",
                          "print", " ", "x", ";" >>),
       statements |-> << var("a", number(1)),
                         var("x", Expr_Unary(tk("MINUS", "-"), variable("a"))),
                         print(variable("x")) >>],
      \* fun f(n) { return -n; } print f(1);
      [source |-> src(<< "fun", " ", "f", "(", "n", ")", "{",
                          "return", " ", "-", "n", ";", "}",
                          "print", " ", "f", "(", "1", ")", ";" >>),
       statements |-> << function("f", << "n" >>,
                             << return_value(Expr_Unary(tk("MINUS", "-"),
                                                        variable("n"))) >>),
                         print(call(variable("f"), << number(1) >>)) >>],
      \* fun f(n) { return n; } print f(-1);
      [source |-> src(<< "fun", " ", "f", "(", "n", ")", "{",
                          "return", " ", "n", ";", "}",
                          "print", " ", "f", "(", "-", "1", ")", ";" >>),
       statements |-> << function("f", << "n" >>,
                             << return_value(variable("n")) >>),
                         print(call(variable("f"),
                             << Expr_Unary(tk("MINUS", "-"), number(1)) >>)) >>],
      \* print 2 - -1;
      [source |-> src(<< "print", " ", "2", "-", "-", "1", ";" >>),
       statements |-> << print(minus(number(2),
                             Expr_Unary(tk("MINUS", "-"), number(1)))) >>] }

\* source texts with an assignment to what is neither a Variable nor a Get,
\* and the statements of a parser that returns the left side and goes on
InvalidTargetCases ==
    { \* 1 = 2; print 3;
      [source |-> src(<< "1", "=", "2", ";", "print", " ", "3", ";" >>),
       statements |-> << Stmt_Expr(number(1)), print(number(3)) >>],
      \* var a = 1; (a) = 2; print a;
      [source |-> src(<< "var", " ", "a", "=", "1", ";",
                         "(", "a", ")", "=", "2", ";",
                         "print", " ", "a", ";" >>),
       statements |-> << var("a", number(1)),
                         Stmt_Expr(Expr_Grouping(variable("a"))),
                         print(variable("a")) >>],
      \* print 1 + 2 = 3;
      [source |-> src(<< "print", " ", "1", "+", "2", "=", "3", ";" >>),
       statements |-> << print(plus(number(1), number(2))) >>] }

\* source texts with a `for` loop, and what the desugaring
\* `{ init; while (cond) { body; inc; } }` prints for them
ForCases ==
    { \* for (var i = 0; i < 3; i = i + 1) print i;
      [source |-> src(<< "for", "(", "var", " ", "i", "=", "0", ";",
                         "i", "<", "3", ";", "i", "=", "i", "+", "1", ")",
                         "print", " ", "i", ";" >>),
       out |-> << "0", "1", "2" >>],
      \* var i = 0; for (; i < 2; i = i + 1) print i;
      [source |-> src(<< "var", " ", "i", "=", "0", ";",
                         "for", "(", ";", "i", "<", "2", ";",
                         "i", "=", "i", "+", "1", ")",
                         "print", " ", "i", ";" >>),
       out |-> << "0", "1" >>],
      \* fun f(n) { print n; return n + 1; }
      \* for (var i = 0; i < 2; i = f(i)) print 4;
      [source |-> src(<< "fun", " ", "f", "(", "n", ")", "{",
                         "print", " ", "n", ";",
                         "return", " ", "n", "+", "1", ";", "}",
                         "for", "(", "var", " ", "i", "=", "0", ";",
                         "i", "<", "2", ";", "i", "=", "f", "(", "i", ")", ")",
                         "print", " ", "4", ";" >>),
       out |-> << "4", "0", "4", "1" >>],
      \* fun g() { print 5; } var i = 0; for (; i < 1; g()) i = 1;
      [source |-> src(<< "fun", " ", "g", "(", ")", "{",
                         "print", " ", "5", ";", "}",
                         "var", " ", "i", "=", "0", ";",
                         "for", "(", ";", "i", "<", "1", ";", "g", "(", ")", ")",
                         "i", "=", "1", ";" >>),
       out |-> << "5" >>],
      \* for (var i = 0; i < 1;) { print i; i = 1; }
      [source |-> src(<< "for", "(", "var", " ", "i", "=", "0", ";",
                         "i", "<", "1", ";", ")", "{",
                         "print", " ", "i", ";", "i", "=", "1", ";", "}" >>),
       out |-> << "0" >>] }

\* source texts with a parse error, by where synchronize stops
RecoverySources ==
    { \* var 1; print 2;     stops after the `;`
      src(<< "var", " ", "1", ";", "print", " ", "2", ";" >>),
      \* print 1 2 print 3;  stops before the second `print`
      src(<< "print", " ", "1", " ", "2", " ", "print", " ", "3", ";" >>),
      \* print 1 print 2;    the offending token is a statement keyword
      src(<< "print", " ", "1", " ", "print", " ", "2", ";" >>),
      \* print ; var a;      the offending token is the `;`
      src(<< "print", " ", ";", "var", " ", "a", ";" >>),
      \* print (1            runs to the EOF token
      src(<< "print", " ", "(", "1" >>),
      \* var a = ; if 1      two errors, the second one at EOF
      src(<< "var", " ", "a", "=", ";", "if", " ", "1" >>),
      \* 1 = 2 print 3;      the offending `=` lies before the cursor
      src(<< "1", "=", "2", " ", "print", " ", "3", ";" >>) }

RunSources ==
    { c.source : c \in UnaryCases \cup InvalidTargetCases \cup ForCases } \cup
    RecoverySources

\* the chars of the source texts: a char no token starts with, the quote,
\* the two chars of the comments, a digit, a letter and a char of two bytes
Alphabet == {"@", "\"", "/", "*", "1", "a", E_ACUTE}
Sources ==
    UNION { [1..n -> Alphabet] : n \in 0..MaxSrcLen } \cup Words \cup Names
    \cup NestedSources \cup CommentSources

\* the loop body of scan_tokens: self.start = self.current; self.scan_token();
ScanToken ==
    /\ scanning = "scanning"
    /\ ~Scanner_is_at_end(Scanner_state)
    /\ \E res \in {Scanner_scan_token(
                        [Scanner_state EXCEPT !.start = current])} :
           /\ tokens' = res.sc.tokens
           /\ start' = res.sc.start
           /\ current' = res.sc.current
           /\ line' = res.sc.line
           /\ diags' = res.sc.diags
           /\ scanning' = IF res.r.kind = "panic" THEN "panicked" ELSE "scanning"
           /\ failure' = IF res.r.kind = "panic" THEN Some(res.r) ELSE None
    /\ UNCHANGED << source, program, stage, pc, environment, locals, heap, out,
                    log, parser >>

\* the end of scan_tokens: the EOF token is pushed and the tokens returned
ScanEnd ==
    /\ scanning = "scanning"
    /\ Scanner_is_at_end(Scanner_state)
    /\ tokens' = Scanner_make_token(Scanner_state, "EOF", "").tokens
    /\ scanning' = "scanned"
    /\ UNCHANGED << source, start, current, line, pipeline, parser >>

\* no text is being scanned
ScannerIdle ==
    /\ source = << >>
    /\ tokens = << >>
    /\ start = 0
    /\ current = 0
    /\ line = 1
    /\ scanning = "idle"

\* no token list is being parsed
ParserIdle ==
    /\ cursor = 0
    /\ statements = << >>
    /\ parsing = "idle"
    /\ recovery = << >>

\* the run of a program
Init == InitPipeline /\ ScannerIdle /\ ParserIdle
Next == (Resolve \/ InterpretNext) /\ UNCHANGED << scanner, parser >>
Spec == Init /\ [][Next]_vars

\* Scanner::new(source), before anything is parsed
InitScan ==
    /\ source \in Sources
    /\ tokens = Scanner_new(source).tokens
    /\ start = Scanner_new(source).start
    /\ current = Scanner_new(source).current
    /\ line = Scanner_new(source).line
    /\ diags = Scanner_new(source).diags
    /\ scanning = "scanning"
    /\ program = << >>
    /\ stage = "scan"
    /\ pc = 1
    /\ environment = 1
    /\ heap = << Environment_global >>
    /\ locals = HashMap_new
    /\ out = << >>
    /\ log = << >>
    /\ failure = None
    /\ ParserIdle
NextScan == ScanToken \/ ScanEnd
SpecScan == InitScan /\ [][NextScan]_vars

(***************************************************************************)
(* The run of a source text: scan_tokens, then Parser::new(tokens).parse() *)
(* one declaration at a time, then the resolver and the interpreter on the *)
(* statements parsed.  A source text that the parser reported an error in  *)
(* is not run.                                                             *)
(***************************************************************************)
\* the Parser of the variables
Parser_state == [tokens |-> tokens, current |-> cursor, diags |-> diags]

\* one turn of the while loop of Parser::parse
ParseDeclaration ==
    /\ scanning = "scanned"
    /\ parsing = "parsing"
    /\ ~Parser_is_at_end(Parser_state)
    /\ \E res \in {Parser_declaration(Parser_state)} :
           IF res.r.kind = "ok"
           THEN /\ statements' = Append(statements, res.r.v)
                /\ cursor' = res.P.current
                /\ diags' = res.P.diags
                /\ UNCHANGED recovery
           ELSE /\ cursor' = Parser_synchronize(res.P).current
                /\ diags' = Parser_error(res.P, res.r.err.token,
                                         res.r.err.message).diags
                /\ recovery' = Append(recovery,
                                      [token |-> res.r.err.token,
                                       from |-> res.P.current,
                                       to |-> cursor'])
                /\ UNCHANGED statements
    /\ UNCHANGED << parsing, scanner, program, stage, pc, environment, locals,
                    heap, out, log, failure >>

\* the end of Parser::parse: the statements are returned
ParseEnd ==
    /\ scanning = "scanned"
    /\ parsing = "parsing"
    /\ Parser_is_at_end(Parser_state)
    /\ parsing' = "parsed"
    /\ program' = statements
    /\ stage' = IF Len(diags) > 0 THEN "static_error" ELSE "resolve"
    /\ UNCHANGED << cursor, statements, recovery, scanner, pc, environment,
                    locals, heap, out, diags, log, failure >>

\* Scanner::new(source) on a source text to run
InitRun ==
    /\ source \in RunSources
    /\ tokens = Scanner_new(source).tokens
    /\ start = Scanner_new(source).start
    /\ current = Scanner_new(source).current
    /\ line = Scanner_new(source).line
    /\ diags = Scanner_new(source).diags
    /\ scanning = "scanning"
    /\ cursor = Parser_new(tokens).current
    /\ statements = << >>
    /\ parsing = "parsing"
    /\ recovery = << >>
    /\ program = << >>
    /\ stage = "scan"
    /\ pc = 1
    /\ environment = 1
    /\ heap = << Environment_global >>
    /\ locals = Interpreter_new(environment).locals
    /\ out = << >>
    /\ log = << >>
    /\ failure = None

NextRun ==
    \/ ScanToken
    \/ ScanEnd
    \/ ParseDeclaration
    \/ ParseEnd
    \/ Resolve /\ UNCHANGED << scanner, parser >>
    \/ InterpretNext /\ UNCHANGED << scanner, parser >>
SpecRun == InitRun /\ [][NextRun]_vars

(***************************************************************************)
(* Properties.  They are stated over `log`: an "enter" event of level l is *)
(* closed by the next "exit" event of level l, and the calls made directly *)
(* under it are the "enter" events of level l + 1 in between.              *)
(***************************************************************************)
Events == 1..Len(log)
IsEnter(i, n) == log[i].ev = "enter" /\ log[i].n = n
IsExit(i, n) == log[i].ev = "exit" /\ log[i].n = n
\* the events that close a call of level l
ClosesLevel(j, l) == log[j].ev = "exit" /\ log[j].lvl = l
\* the "exit" event of the "enter" event i
ExitOf(i) ==
    CHOOSE j \in Events :
        /\ j > i
        /\ ClosesLevel(j, log[i].lvl)
        /\ \A k \in (i + 1)..(j - 1) : ~ClosesLevel(k, log[i].lvl)
\* the calls of interpret (n = "stmt") or interpret_expr (n = "expr") made
\* directly under the call that event i enters
Kids(i, n) ==
    { k \in (i + 1)..(ExitOf(i) - 1) :
        IsEnter(k, n) /\ log[k].lvl = log[i].lvl + 1 }
\* the m-th of them
Kid(i, n, m) ==
    CHOOSE k \in Kids(i, n) : Cardinality({ h \in Kids(i, n) : h < k }) = m - 1

\* truthiness as the specification defines it: every value but Nil and
\* Boolean(false)
Truthy(value) ==
    ~(\/ value.primitive.t = "Nil"
      \/ (value.primitive.t = "Boolean" /\ value.primitive.v = FALSE))

\* the run of the program has ended
Ended == stage \in {"done", "runtime_error", "panicked", "cutoff", "static_error"}

\* C1: scope correctness.  Whenever look_up_var reads a Variable use that
\* the resolver recorded with distance d, the lookup succeeds and the value
\* read is the binding of the name in the frame d enclosing links away from
\* the environment active at the use.
C1_ScopeCorrectness ==
    \A i \in Events :
        log[i].ev = "read" /\ is_some(log[i].distance) =>
            LET d == unwrap(log[i].distance)
                name == log[i].name.lexeme
            IN  /\ log[i].r.kind = "ok"
                /\ d + 1 <= Len(log[i].chain)
                /\ name \in DOMAIN log[i].chain[d + 1]
                /\ log[i].r.value = log[i].chain[d + 1][name]

\* C10: reading a variable that is bound neither in the frame its
\* resolution points to nor, when the use has no resolution, in the global
\* environment gives the runtime error "Undefined variable '<name>'." on
\* the name token, as a value: the interpreter does not panic.
C10_UndefinedVariableIsRuntimeError ==
    \A i \in Events :
        log[i].ev = "read" =>
            LET chain == log[i].chain
                frame == IF is_some(log[i].distance)
                         THEN unwrap(log[i].distance) + 1 ELSE Len(chain)
                bound == /\ frame <= Len(chain)
                         /\ log[i].name.lexeme \in DOMAIN chain[frame]
            IN  ~bound =>
                    log[i].r = Err(InterpretError_new(
                        "Undefined variable '" \o log[i].name.lexeme \o "'.",
                        log[i].name))

\* the event after the condition of an If or a While has been evaluated to
\* `value` enters `branch`
Enters(j, branch) == j \in Events /\ IsEnter(j, "stmt") /\ log[j].node = branch

\* C8: `if (c)` executes its then-branch and `while (c)` its body once more
\* exactly when the value of c is truthy (anything but Nil and
\* Boolean(false)); otherwise the else-branch, if any, runs or the loop ends.
C8_ConditionsUseTruthiness ==
    \A i \in Events :
        IsEnter(i, "stmt") /\ log[i].node.k \in {"If", "While"} =>
            \A c \in Kids(i, "expr") :
                LET e == ExitOf(c)
                    stmt == log[i].node
                IN  log[e].r.kind = "ok" /\ log[ExitOf(i)].r.kind # "cutoff"
                    /\ log[e].node = stmt.condition =>
                        IF stmt.k = "While"
                        THEN Enters(e + 1, stmt.body) <=> Truthy(log[e].r.value)
                        ELSE /\ Enters(e + 1, stmt.then_branch)
                                    <=> Truthy(log[e].r.value)
                             /\ is_some(stmt.else_branch) =>
                                    (Enters(e + 1, unwrap(stmt.else_branch))
                                        <=> ~Truthy(log[e].r.value))

\* the function value made by the declaration that event i enters
DeclaredAt(i, callable) ==
    /\ IsEnter(i, "stmt")
    /\ log[i].node.k = "Function"
    /\ log[i].node.name = callable.name
    /\ log[i].node.params = callable.params
    /\ log[i].node.body = callable.body

\* C2: closure capture.  A function value shares the environment active
\* when its declaration was executed: each call runs in a frame whose
\* enclosing is that very cell, so that assignments made after the capture,
\* by code outside the function or by an earlier call, are seen by the next
\* call: the getter programs print the value assigned after the
\* declaration, and the counter programs print 1 and then 2.
C2_ClosureCapture ==
    /\ \A j \in Events :
           log[j].ev = "call" =>
               /\ \E i \in 1..(j - 1) :
                      /\ DeclaredAt(i, log[j].callable)
                      /\ log[i].env = log[j].callable.closure
               /\ heap[log[j].frame].enclosing = Some(log[j].callable.closure)
    /\ Ended =>
           /\ \A n \in 0..(MaxNest - 1) :
                  program = Counter(n) => stage = "done" /\ out = << "1", "2" >>
           /\ \A n \in 0..(MaxNest - 1), v \in 1..MaxNum :
                  program = Getter(n, v) =>
                      stage = "done" /\ out = << f64_to_string(v) >>

\* C9: field write then read.  After `p.x = v` on an instance reached
\* through a variable, `p.x` through that variable, or through another
\* variable that refers to the same instance, yields v; the Set expression
\* itself yields v; and the field does not appear on another instance of
\* the class.
C9_FieldWriteThenRead ==
    \A j \in Events :
        IsExit(j, "expr") /\ log[j].node.k \in {"Get", "Set"} =>
            \A v \in 1..MaxNum :
                /\ program \in { InstanceProgram("same", v),
                                 InstanceProgram("alias", v), SetProgram(v) } =>
                       /\ log[j].r.kind = "ok"
                       /\ log[j].r.value.primitive = Primitive_Number(v)
                /\ program = InstanceProgram("second", v)
                       /\ log[j].node.k = "Get" =>
                       /\ log[j].r.kind = "err"
                       /\ log[j].r.err.message = "Undefined property 'x'."

\* C5: lexing is total.  On every source text, scan_tokens does not panic,
\* and the token list it returns holds exactly one EOF token, the last.
C5_LexingIsTotal ==
    /\ scanning # "panicked"
    /\ scanning = "scanned" =>
           /\ Len(tokens) >= 1
           /\ \A i \in 1..Len(tokens) :
                  tokens[i].token_type = "EOF" <=> i = Len(tokens)

\* the Return signal of a `return` that was executed
IsReturnSignal(r) == r.kind = "err" /\ is_some(r.err.value)

\* C3: a `return` executed inside a function body, under any nesting of
\* blocks, ifs and while loops, stops the body at once: up to the end of
\* the innermost call nothing happens but the enclosing statements handing
\* the signal on; that call yields the value of the expression (Nil when
\* there is none), and the Call expression returns it as a value: the
\* signal does not reach the statements of the caller.
C3_ReturnStopsTheBody ==
    \A i \in Events :
        /\ IsExit(i, "stmt")
        /\ log[i].node.k = "Return"
        /\ log[i].depth >= 1
        /\ IsReturnSignal(log[i].r)
        => LET v == unwrap(log[i].r.err.value)
           IN  /\ IF is_some(log[i].node.value)
                  THEN /\ IsExit(i - 1, "expr")
                       /\ log[i - 1].node = unwrap(log[i].node.value)
                       /\ log[i - 1].r = OkValue(v)
                  ELSE v.primitive = Primitive_Nil
               /\ \E j \in Events :
                      /\ j > i
                      /\ log[j].ev = "return"
                      /\ log[j].depth = log[i].depth
                      /\ log[j].r = OkValue(v)
                      /\ \A k \in (i + 1)..(j - 1) :
                             /\ IsExit(k, "stmt")
                             /\ log[k].depth = log[i].depth
                             /\ log[k].r = log[i].r
                      /\ j + 1 \in Events
                      /\ IsExit(j + 1, "expr")
                      /\ log[j + 1].node.k = "Call"
                      /\ log[j + 1].r = OkValue(v)

\* a `return v;` in the body of a while loop inside a block, in a function
\* that another function called, has ended the inner call
C3_Witness ==
    \E i \in Events :
        /\ IsExit(i, "stmt")
        /\ log[i].node.k = "Return"
        /\ log[i].depth = 2
        /\ IsReturnSignal(log[i].r)
        /\ unwrap(log[i].r.err.value).primitive = Primitive_Number(MaxNum)
        /\ i + 4 \in Events
        /\ IsExit(i + 1, "stmt") /\ log[i + 1].node.k = "Block"
        /\ IsExit(i + 2, "stmt") /\ log[i + 2].node.k = "While"
        /\ IsExit(i + 3, "stmt") /\ log[i + 3].node.k = "Block"
        /\ log[i + 4].ev = "return"

\* C4: when interpret returns from a statement, with Ok, with a runtime
\* error or with the Return signal, Interpreter.environment is the cell it
\* was when the statement started; and a Block runs its statements in one
\* new cell whose `enclosing` is the environment current at its entry.
C4_EnvironmentRestored ==
    /\ \A j \in Events :
           IsExit(j, "stmt") /\ log[j].r.kind \in {"ok", "err"} =>
               log[j].env = log[j].env0
    /\ \A i \in Events :
           IsEnter(i, "stmt") /\ log[i].node.k = "Block" =>
               \A k \in Kids(i, "stmt") :
                   /\ log[k].env = log[i].cells + 1
                   /\ heap[log[k].env].enclosing = Some(log[i].env)

\* a block inside a block has returned a runtime error, and the run has
\* ended with it
C4_Witness ==
    /\ stage = "runtime_error"
    /\ \E i, j \in Events :
           /\ IsEnter(i, "stmt") /\ log[i].node.k = "Block"
           /\ j \in Kids(i, "stmt") /\ log[j].node.k = "Block"
           /\ log[ExitOf(j)].r.kind = "err"
           /\ is_none(log[ExitOf(j)].r.err.value)
           /\ log[ExitOf(i)].r = log[ExitOf(j)].r

\* event k enters the evaluation of `expr`, one level under event i
EntersOperand(k, i, expr) ==
    /\ k \in Events
    /\ IsEnter(k, "expr")
    /\ log[k].lvl = log[i].lvl + 1
    /\ log[k].node = expr

\* C6: short-circuit.  In `a or b`, b is evaluated if and only if the value
\* of a is falsy, in `a and b` if and only if it is truthy.  When b is not
\* evaluated nothing happens between the end of a and the end of the
\* logical expression, whose result is the value of a itself; when b is
\* evaluated the result is the value of b.
C6_ShortCircuit ==
    \A i \in Events :
        IsEnter(i, "expr") /\ log[i].node.k = "Logical" =>
            LET j == ExitOf(i)
                a == ExitOf(i + 1)
                needed == IF log[i].node.operator.token_type = "OR"
                          THEN ~Truthy(log[a].r.value)
                          ELSE Truthy(log[a].r.value)
                evaluated == \E k \in (a + 1)..(j - 1) :
                                 EntersOperand(k, i, log[i].node.right)
            IN  /\ EntersOperand(i + 1, i, log[i].node.left)
                /\ log[a].r.kind = "ok" =>
                       /\ evaluated <=> needed
                       /\ ~needed => j = a + 1 /\ log[j].r = log[a].r
                       /\ needed =>
                              /\ EntersOperand(a + 1, i, log[i].node.right)
                              /\ ExitOf(a + 1) = j - 1
                              /\ log[j].r = log[j - 1].r

\* `l() or r()` where l returned the number 0 and r was not called: the
\* result is the number 0
C6_Witness ==
    \E i \in Events :
        /\ IsEnter(i, "expr")
        /\ log[i].node.k = "Logical"
        /\ log[i].node.operator.token_type = "OR"
        /\ log[ExitOf(i + 1)].r.kind = "ok"
        /\ log[ExitOf(i + 1)].r.value.primitive = Primitive_Number(0)
        /\ ExitOf(i) = ExitOf(i + 1) + 1
        /\ log[ExitOf(i)].r.value.primitive = Primitive_Number(0)
        /\ out = << "\"L\"", "0" >>

\* C7: a call evaluates its callee, then its arguments from left to right,
\* each after the one before it has returned a value; then it checks the
\* arity, and only then runs the body.  With the wrong number of arguments
\* or a callee that cannot be called, the Call returns a runtime error on
\* its `)` token straight after the last argument, and no body is run.
C7_CallOrder ==
    \A i \in Events :
        IsEnter(i, "expr") /\ log[i].node.k = "Call" =>
            LET node == log[i].node
                j == ExitOf(i)
                n == Cardinality(Kids(i, "expr"))
                operand(m) == Kid(i, "expr", m)
                last == ExitOf(operand(n))
                p == log[ExitOf(i + 1)].r.value.primitive
                instantiates == p.t = "Class" /\ Len(node.arguments) = 0
                runs == p.t = "Callable"
                        /\ p.callable.arity = Len(node.arguments)
            IN  /\ n \in 1..(Len(node.arguments) + 1)
                /\ operand(1) = i + 1
                /\ log[i + 1].node = node.callee
                /\ \A m \in 2..n :
                       /\ log[operand(m)].node = node.arguments[m - 1]
                       /\ operand(m) = ExitOf(operand(m - 1)) + 1
                       /\ log[ExitOf(operand(m - 1))].r.kind = "ok"
                /\ IF log[last].r.kind # "ok"
                   THEN j = last + 1 /\ log[j].r = log[last].r
                   ELSE /\ n = Len(node.arguments) + 1
                        /\ IF runs
                           THEN /\ log[last + 1].ev = "call"
                                /\ log[last + 1].callable = p.callable
                           ELSE /\ j = last + 1
                                /\ IF instantiates
                                   THEN log[j].r.kind = "ok"
                                   ELSE /\ log[j].r.kind = "err"
                                        /\ is_none(log[j].r.err.value)
                                        /\ log[j].r.err.token = node.paren

\* a function of one parameter was called with two arguments: callee and
\* arguments were evaluated, in this order, and the body was not run
C7_Witness ==
    /\ stage = "runtime_error"
    /\ out = << "\"callee\"", "\"a1\"", "\"a2\"" >>
    /\ unwrap(failure).err.message = "Expected 1 arguments but got 2."
    /\ unwrap(failure).err.token = tk("RIGHT_PAREN", ")")
    /\ \A i \in Events : log[i].ev = "call" => log[i].callable.arity = 0
\* equality as the specification defines it, of the values `left` and
\* `right` of the operands `a` and `b`: by contents for Nil, Boolean, Number
\* and String, by identity for Callable, Class and Instance.  In the
\* programs run every object is held by one variable, so two operands are
\* the same object exactly when they read the same variable.
Equal(left, right, a, b) ==
    CASE left.primitive.t # right.primitive.t -> FALSE
      [] left.primitive.t = "Nil" -> TRUE
      [] left.primitive.t \in {"Boolean", "Number", "String"} ->
           left.primitive.v = right.primitive.v
      [] OTHER -> a = b

\* C11: `a == b` has the value Boolean(true) exactly when a and b are equal
\* (by contents for Nil, Boolean, Number, String; by identity for Callable,
\* Class, Instance; never across kinds), and `a != b` has the negation.
C11_Equality ==
    \A i \in Events :
        /\ IsEnter(i, "expr")
        /\ log[i].node.k = "Binary"
        /\ log[i].node.operator.token_type \in {"EQUAL_EQUAL", "BANG_EQUAL"}
        /\ log[ExitOf(i)].r.kind = "ok"
        => LET left == log[ExitOf(Kid(i, "expr", 1))].r.value
               right == log[ExitOf(Kid(i, "expr", 2))].r.value
               equal == Equal(left, right, log[i].node.left, log[i].node.right)
           IN  log[ExitOf(i)].r.value.primitive =
                   Primitive_Boolean(
                       IF log[i].node.operator.token_type = "EQUAL_EQUAL"
                       THEN equal ELSE ~equal)

\* C12: `a / b` on two Numbers, the operator being the token the scanner
\* makes of `/`: the runtime error "Division by zero." when b is zero, and
\* otherwise the Number a / b and no error.
C12_Division ==
    \A i \in Events :
        /\ IsEnter(i, "expr")
        /\ log[i].node.k = "Binary"
        /\ log[i].node.operator.token_type = "SLASH"
        => LET left == log[ExitOf(Kid(i, "expr", 1))].r.value.primitive
               right == log[ExitOf(Kid(i, "expr", 2))].r.value.primitive
               r == log[ExitOf(i)].r
           IN  left.t = "Number" /\ right.t = "Number" =>
                   IF right.v = 0
                   THEN r.kind = "err" /\ r.err.message = "Division by zero."
                   ELSE /\ r.kind = "ok"
                        /\ r.value.primitive =
                               Primitive_Number(f64_div(left.v, right.v))

\* the value of the print statement entered at event i
Printed(i) == log[ExitOf(Kid(i, "expr", 1))].r.value.primitive

\* C13: `var a = s; { var a = a + t; print a; } print a;` runs to its end;
\* the block's declaration is made in the block's own frame with the
\* initializer reading the enclosing a, the print in the block sees the new
\* binding s + t, and the print after the block sees the enclosing binding s.
C13_BlockLocalShadowing ==
    \A s \in {"hi", ""}, reads \in BOOLEAN, t \in {" there", "hi"} :
        program = ShadowProgram(s, reads, t) /\ Ended =>
            /\ stage = "done"
            /\ \E d, p, q \in Events :
                  /\ d < p /\ p < q
                  /\ Enters(d, var("a", ShadowInitializer(reads, t)))
                  /\ Enters(p, print(variable("a")))
                  /\ Enters(q, print(variable("a")))
                  /\ log[d].env # log[q].env
                  /\ log[p].env = log[d].env
                  /\ log[q].env = log[1].env
                  /\ Printed(d) = Primitive_String(IF reads THEN s \o t ELSE t)
                  /\ Printed(p) = Printed(d)
                  /\ Printed(q) = Primitive_String(s)

\* the canonical form of a value as the specification gives it
Canonical(p) ==
    CASE p.t = "Number" -> f64_to_string(p.v)
      [] p.t = "Boolean" -> IF p.v THEN "true" ELSE "false"
      [] p.t = "Nil" -> "nil"
      [] p.t = "String" -> p.v
      [] p.t = "Callable" -> "<fn " \o p.callable.name.lexeme \o ">"
      [] p.t = "Class" -> p.class.name.lexeme
      [] p.t = "Instance" -> p.instance.class.name.lexeme \o " instance"

\* the print statement entered at event i has evaluated its expression
HasPrinted(i) ==
    /\ IsEnter(i, "stmt")
    /\ log[i].node.k = "Print"
    /\ \E j \in Events : j > i /\ ClosesLevel(j, log[i].lvl)
    /\ log[ExitOf(i)].r.kind = "ok"

\* the lines of the output that print statements wrote: every line but the
\* traces that the Get and Set expressions write
IsPrintLine(text) ==
    text \notin { "Object we're getting: {:?}", "Instace fields before: {:?}",
                  "Instance fields after: {:?}" }
PrintLines == SelectSeq(out, IsPrintLine)

\* C14: the k-th print statement to end, having evaluated its expression, writes, as the
\* k-th printed line of the output, the canonical form of the value: a String as its
\* raw contents, a Callable as <fn name>, Nil as nil, a Boolean as true or
\* false, a Class as its name and an Instance as its class's name and
\* " instance".
C14_PrintCanonicalForm ==
    \A i \in Events :
        HasPrinted(i) =>
            LET k == Cardinality({ h \in Events :
                                     HasPrinted(h) /\ ExitOf(h) <= ExitOf(i) })
            IN  k <= Len(PrintLines) /\ PrintLines[k] = Canonical(Printed(i))

RECURSIVE ReturnOutsideFunction(_)
\* stmt holds a return statement that is in no function body
ReturnOutsideFunction(stmt) ==
    CASE stmt.k = "Return" -> TRUE
      [] stmt.k = "Block" ->
           \E k \in 1..Len(stmt.stmts) : ReturnOutsideFunction(stmt.stmts[k])
      [] stmt.k = "If" ->
           \/ ReturnOutsideFunction(stmt.then_branch)
           \/ is_some(stmt.else_branch)
                /\ ReturnOutsideFunction(stmt.else_branch[1])
      [] stmt.k = "While" -> ReturnOutsideFunction(stmt.body)
      [] OTHER -> FALSE

\* C15: a program with a return statement outside of every function body is
\* rejected by the resolver and not interpreted, no return statement is
\* executed outside of a call, and no run ends with the Return signal.
C15_ReturnOutsideFunctionRejected ==
    /\ (\E k \in 1..Len(program) : ReturnOutsideFunction(program[k]))
            /\ stage # "resolve"
        => stage = "static_error" /\ log = << >>
    /\ \A i \in Events :
           IsEnter(i, "stmt") /\ log[i].node.k = "Return" => log[i].depth >= 1
    /\ stage = "runtime_error" => ~IsReturnSignal(failure[1])

\* the resolver has found a local variable read in its own initializer
ReadsOwnInitializer ==
    \E k \in 1..Len(diags) :
        diags[k].message = "Cannot read local variable in its own initializer."

\* C16: when a local variable is read in its own initializer, the resolver
\* pass ends in an error, not in success, and the program is not interpreted.
C16_OwnInitializerIsResolverError ==
    ReadsOwnInitializer =>
        /\ is_some(failure) /\ failure[1].kind = "err"
        /\ stage = "static_error"
        /\ log = << >>

KeywordKinds ==
    [and |-> "AND", or |-> "OR", class |-> "CLASS", else |-> "ELSE",
     false |-> "FALSE", for |-> "FOR", fun |-> "FUN", if |-> "IF",
     nil |-> "NIL", print |-> "PRINT", return |-> "RETURN",
     super |-> "SUPER", this |-> "THIS", true |-> "TRUE", var |-> "VAR",
     while |-> "WHILE", break |-> "BREAK"]

\* C18: a source text that is one word of the keyword list is scanned to the
\* token of the word's keyword kind, `break` to BREAK, and a source text that
\* is another identifier to an IDENTIFIER token.
C18_Keywords ==
    scanning = "scanned" /\ source \in Words \cup Names =>
        /\ Len(tokens) = 2
        /\ tokens[1].lexeme = concat(source)
        /\ tokens[1].token_type =
               IF source \in Words THEN KeywordKinds[concat(source)]
               ELSE "IDENTIFIER"

\* the kinds of the tokens scanned
TokenTypes == [k \in 1..Len(tokens) |-> tokens[k].token_type]

\* C19: block comments nest.  A comment with comments inside it ends at the
\* `*/` that closes the outermost one: alone it yields the EOF token only,
\* followed by ` x` the tokens of x and EOF, and a nest whose outermost
\* comment is never closed is the lex error "Unterminated block comment".
C19_BlockCommentsNest ==
    scanning = "scanned" =>
        \A d \in 1..MaxNest :
            /\ source = NestedComment(d) =>
                   TokenTypes = << "EOF" >> /\ diags = << >>
            /\ source = NestedComment(d) \o << " ", "x" >> =>
                   /\ TokenTypes = << "IDENTIFIER", "EOF" >>
                   /\ tokens[1].lexeme = "x"
                   /\ diags = << >>
            /\ source = UnclosedComment(d) =>
                   \E k \in 1..Len(diags) :
                       diags[k].message = "Unterminated block comment"

\* the number of newlines in the source text
Newlines == Cardinality({ i \in 1..Len(source) : source[i] = "\n" })

\* C20: a source text that is one terminated block comment, whatever chars
\* the comment holds, is scanned to the EOF token alone, and the line of the
\* token is 1 plus the number of newlines of the text.
C20_CommentYieldsOnlyEOF ==
    source \in CommentSources /\ scanning # "scanning" =>
        /\ scanning = "scanned"
        /\ tokens = << [token_type |-> "EOF", lexeme |-> "",
                        line |-> 1 + Newlines] >>

\* C21: a source text with an expression whose first token is the unary `-`
\* or `!` is parsed to the statements of the grammar, the expression to
\* Unary(operator, operand), with no diagnostic and no token skipped.
C21_UnaryFirst ==
    \A c \in UnaryCases :
        source = c.source /\ parsing = "parsed" =>
            /\ statements = c.statements
            /\ diags = << >>
            /\ recovery = << >>

\* C22: when the left side of `=` is neither a Variable nor a Get, the parser
\* reports "Invalid assignment target.", the assignment rule returns the
\* left side, and the statement and those after it are parsed: no
\* ParseError is raised and synchronize is not called.
C22_InvalidAssignmentTarget ==
    \A c \in InvalidTargetCases :
        source = c.source /\ parsing = "parsed" =>
            /\ \E k \in 1..Len(diags) :
                   diags[k].message = "Invalid assignment target."
            /\ statements = c.statements
            /\ recovery = << >>

\* C23: `for (init; cond; inc) body` behaves as
\* `{ init; while (cond) { body; inc; } }`: the run of a source text with a
\* for loop ends without error and has printed what the desugaring prints,
\* with inc evaluated once after each execution of body.
C23_ForDesugaring ==
    \A c \in ForCases :
        source = c.source /\ Ended =>
            /\ stage = "done"
            /\ PrintLines = c.out

\* with p tokens consumed the parser is where synchronize may stop: the
\* token just consumed is `;`, or the next one starts a statement, or is EOF
StopsAt(p) ==
    \/ p >= 1 /\ tokens[p].token_type = "SEMICOLON"
    \/ tokens[p + 1].token_type \in StatementStarts \cup {"EOF"}

\* the first position from n on where synchronize may stop, and the
\* position before the EOF token when there is none
FirstStop(n) ==
    IF \E p \in n..(Len(tokens) - 1) : StopsAt(p)
    THEN CHOOSE p \in n..(Len(tokens) - 1) :
             StopsAt(p) /\ \A q \in n..(p - 1) : ~StopsAt(q)
    ELSE Len(tokens) - 1

\* the first position after the offending token of the ParseError that is
\* not before the cursor: past the token when it is the next one to consume,
\* the cursor itself when the token has been consumed
AfterOffending(rec) ==
    IF tokens[rec.from + 1] = rec.token THEN rec.from + 1 ELSE rec.from

\* C24: after a parse error synchronize stops at the first position after
\* the offending token where the token just consumed is `;` or the next
\* token is one of class, fun, var, for, if, while, print, return, or at
\* EOF; the cursor never moves past the EOF token.
C24_SynchronizeStops ==
    scanning = "scanned" /\ parsing # "idle" =>
        /\ cursor <= Len(tokens) - 1
        /\ \A k \in 1..Len(recovery) :
               recovery[k].to = FirstStop(AfterOffending(recovery[k]))

\* C25: a use of a local name resolved with k scopes on the stack, the
\* innermost one that declares the name being at index j, is recorded with
\* the distance k - 1 - j: 0 for the innermost scope, 1 for the one that
\* directly encloses it; a name declared in no local scope has no entry.
\* In the scope programs block i is the scope at index i - 1.
C25_DistanceFromInnermost ==
    \A g \in BOOLEAN, k \in 1..MaxNest, D \in SUBSET (1..MaxNest) :
        /\ program = (IF g THEN << var("a", number(0)) >> ELSE << >>) \o
                     << NestedBlock(1, k, D) >>
        /\ stage # "resolve"
        => LET declaring == D \cap (1..k)
               j == (CHOOSE i \in declaring : \A o \in declaring : o <= i) - 1
           IN  IF declaring = {}
               THEN ~HashMap_contains_key(locals, variable("a"))
               ELSE /\ HashMap_contains_key(locals, variable("a"))
                    /\ locals[variable("a")] = k - 1 - j

\* C26: two uses of the same name at different source positions, on the
\* same line too, have separate entries in the resolution map, none of them
\* overwritten by the resolution of another expression: after the pass the
\* map holds one entry for each use of a local name.
C26_EntryPerUse ==
    \A c \in SameNameCases :
        program = c.program /\ stage # "resolve" =>
            Cardinality(DOMAIN locals) = c.uses

\* C27: the statement `name = e;` writes the value of e into the frame the
\* resolver selected, the one at the resolved distance or the global one,
\* and is a runtime error when the name is not bound there; a frame that
\* holds the same name at run time without being the selected one, such as
\* the block of a closure that declares the name after the function, is
\* never written.
C27_StatementAssignsResolvedFrame ==
    \A c \in AssignStatementCases :
        program = c.program /\ Ended =>
            /\ stage = c.stage
            /\ PrintLines = c.out

\* C28: the assignment expression `x = e` has the value of e and stores it
\* in the binding of x in the live environment chain, in the frame at the
\* resolved distance or in the global frame: the run ends without error,
\* the assignment prints the value of e and the next read of x yields it.
C28_AssignmentStoresInLiveFrame ==
    \A c \in AssignExpressionCases :
        program = c.program /\ Ended =>
            /\ stage = "done"
            /\ PrintLines = c.out

\* event i enters an expression whose evaluation has ended
HasEvaluated(i) ==
    /\ IsEnter(i, "expr")
    /\ \E j \in Events : j > i /\ ClosesLevel(j, log[i].lvl)

\* C29: the evaluation of an assignment expression `x = e` evaluates e
\* exactly once: an evaluation of the assignment that ends with a value
\* has made one call of interpret_expr, on e.
C29_ValueEvaluatedOnce ==
    \A i \in Events :
        /\ HasEvaluated(i)
        /\ log[i].node.k = "Assign"
        /\ log[ExitOf(i)].r.kind = "ok"
        => /\ Cardinality(Kids(i, "expr")) = 1
           /\ \A k \in Kids(i, "expr") : log[k].node = log[i].node.value

\* what the resolver records for a use of `name` by itself at the place of
\* the expression that TargetProgram(n, _) prints
OwnDistance(n, name) ==
    Resolver_resolve(Resolver_new(HashMap_new),
                     TargetProgram(n, variable(name))).R.locals[variable(name)]

\* C30: for an assignment expression to a local variable the resolver
\* records the distance of the target under the assignment expression
\* itself, the key the interpreter looks up, and leaves the entry of the
\* right-hand side as it was: in `x = y` the use of y keeps y's distance.
C30_TargetRecordedUnderAssignment ==
    \A n \in 0..(MaxNest - 1) :
        LET e == assignment("x", variable("y"))
        IN  program = TargetProgram(n, e) /\ stage # "resolve" =>
                /\ HashMap_contains_key(locals, e)
                /\ locals[e] = OwnDistance(n, "x")
                /\ HashMap_contains_key(locals, variable("y"))
                /\ locals[variable("y")] = OwnDistance(n, "y")

====
